---- MODULE Spec2Model ----
(***************************************************************************)
(* State-machine model of the MathematicaPlus content script               *)
(* (src/src/contentScriptLogic.ts), its background relay                   *)
(* (src/src/messageHandlers.ts) and the persisted configuration it reads.  *)
(*                                                                         *)
(* Two specifications share the module:                                    *)
(*   CarouselSpec  the batch and audit runs, the Ask modal and the result  *)
(*                 and audit carousels with their close listeners;         *)
(*   ChatSpec      the chat panel: open, join, leave, poll, send, attach   *)
(*                 and the background relay for chat.                      *)
(* Every await of the source is a point where other handlers may run, so   *)
(* an async function is cut into one action per resumption.                *)
(* The chat model leaves the scroll position (scrollTop, the debounced      *)
(* save, the restore on the first render) out: loadMessages is cut at its  *)
(* fetch only.                                                             *)
(***************************************************************************)
EXTENDS Integers, Sequences, FiniteSets, Bags, TLC

\* ------------------------------------------------------------------ bounds
MaxModals == 2      \* modal objects alive at once (in the tree or holding listeners)
MaxItems == 2       \* directives of one run / findings of one audit reply
MaxRuns == 2        \* handler invocations awaiting a reply at once
MaxPopups == 1      \* per-anchor answer popups in the document at once
MaxPanels == 2      \* chat panel objects alive at once (in the tree, or out of it with a
                    \* timer, a listener or a pending continuation), plus openings
MaxOpening == 1     \* runChatModal invocations that have not yet built their panel
MaxTasks == 1       \* handler continuations of one panel awaiting storage or a send
MaxMsgs == 1        \* messages of a fetched snapshot
MaxChunks == 2      \* bracketed pieces of a notebook text
MaxSpans == 1       \* span elements of the notebook that mention one directive kind
MaxLen == 5         \* characters of a rendered text
MaxMath == MaxLen \div 2   \* math spans of a rendered text
MaxResolved == 2    \* counted continuations of the save handler after one await
MaxOffset == 1      \* scrollTop of the message list; the largest is the bottom
MaxRestores == 2    \* counted assignments of the saved offset to scrollTop
MaxRenders == 2     \* counted renders of the room the panel opened with
MaxBurst == 2       \* counted scroll events of one burst
MaxFired == 2       \* counted save timeouts that ran after one scroll event
MaxTimers == 2      \* pending timeouts of the scroll listener
MaxPolled == 2      \* messages of a polled list, and counted polls
MaxAsks == 2        \* handleSend calls awaiting their reply
MaxInjections == 3  \* runs of the content script in one page
MaxStarted == 2     \* counted calls of one content action

VARIABLES
  storedToken,      \* chrome.storage.local 'token'
  storedUser,       \* chrome.storage.local 'chatUsername'
  processingMode,   \* chrome.storage.local 'processingMode'
  body,             \* the modal overlays that are children of document.body, in order
  leaked,           \* bag of the modals out of the tree whose listeners are registered
  runs,             \* bag of the async handler invocations that are awaiting something
  spinner,          \* #mathematica-loading-spinner is in the document
  errorPopup,       \* message of #mathematica-error-popup, "" when absent
  popups,           \* number of per-anchor answer popups in the scroller
  auditOutcome      \* the answer the last step's audit reply carried and what it led to

VARIABLES
  storedRoom,       \* chrome.storage.local 'chatRoomId'
  panels,           \* the chat panels that are children of document.body, in order
  detached,         \* bag of the chat panels out of the tree that can still act
  opening,          \* bag of the runChatModal invocations before their panel exists
  note              \* what the handler of the last step did (status text, render, relay)

VARIABLES
  notebookText,     \* the text of the notebook cells, joined (a sequence of tokens)
  directives        \* what the last extraction over notebookText returned

VARIABLES
  fetch,            \* the fetchAIResponse call under way: its message, reply and result
  latex,            \* the renderLatex call under way: its text, spans and output
  validation,       \* the extension popup's save handler and its validateToken promise
  scroll            \* one chat panel's scroll state and chrome.storage.local 'chatScrollPositions'

VARIABLES
  ask,              \* the Ask modal's send control and the handleSend calls awaiting a reply
  batch,            \* the runComputeAiV2 call under way: its directives and result items
  page,             \* the page's message listeners and what the last message started
  sigs              \* a polled room: the list shown, its signature, the list last fetched

unitVars == <<ask, batch, page, sigs>>

pureVars == <<notebookText, directives, fetch, latex, validation, scroll, unitVars>>
chatState == <<storedRoom, panels, detached, opening>>
chatVars == <<chatState, note>>
modalRest == <<processingMode, body, leaked, runs, spinner, popups>>
modalVars == <<processingMode, body, leaked, runs, spinner, errorPopup, popups, auditOutcome>>
credVars == <<storedToken, storedUser>>

\* ------------------------------------------------------------------ helpers
RemoveAt(s, i) == SubSeq(s, 1, i - 1) \o SubSeq(s, i + 1, Len(s))

SeqsUpTo(S, n) == UNION {[1..k -> S] : k \in 0..n}

One(x) == SetToBag({x})

Tokens == {"", "tok"}
Users == {"", "me"}

\* ------------------------------------------------------------------ modal objects
\* kind: "result" (#mathematica-modal-overlay), "audit" (#mathematica-audit-overlay),
\*       "notice" (.mathematica-audit-overlay), "ask" (#mathematica-ask-overlay)
\* listeners: the document mousedown and keydown listeners of the modal are registered
\* idx: currentIndex; meta: the index meta.textContent names; shown: the index of the
\* item in content.innerHTML; prevDis / nextDis: prevBtn.disabled / nextBtn.disabled
NewModal(kind, items) ==
  [kind |-> kind, listeners |-> TRUE, items |-> items,
   idx |-> 0, meta |-> 0, shown |-> 0, prevDis |-> FALSE, nextDis |-> FALSE]

\* A modal out of the tree can no longer be shown or clicked; what remains of it is
\* whether its document listeners are still registered (then it is in leaked).
\* wasIn: it had been appended to document.body before it left the tree.
Leaked(kind, wasIn) == [kind |-> kind, wasIn |-> wasIn]

\* the ask runs between createAskAiModal and appendChild hold their modal themselves
PendingAsk(rs) == {r \in BagToSet(rs) : r.modal # "none"}

PendingCount(rs) ==
  LET S == PendingAsk(rs)
      RECURSIVE Sum(_)
      Sum(T) == IF T = {} THEN 0
                ELSE LET x == CHOOSE y \in T : TRUE IN CopiesIn(x, rs) + Sum(T \ {x})
  IN Sum(S)

ModalCount(bd, lk, rs) == Len(bd) + BagCardinality(lk) + PendingCount(rs)

\* document.querySelector('#id'): the first overlay of that kind in document order
QuerySelector(bd, kind) ==
  LET hits == {i \in 1..Len(bd) : bd[i].kind = kind}
  IN IF hits = {} THEN 0 ELSE CHOOSE i \in hits : \A j \in hits : i <= j

\* (mutant) the existing overlay is left in the tree
RemoveExistingKept(bd, kind) == bd

\* existingOverlay.remove(): the element leaves the tree ...
RemoveExisting(bd, kind) ==
  LET e == QuerySelector(bd, kind)
  IN IF e = 0 THEN bd ELSE RemoveAt(bd, e)

\* ... and its listeners stay registered
LeakExisting(lk, bd, kind) ==
  LET e == QuerySelector(bd, kind)
  IN IF e # 0 /\ bd[e].listeners THEN lk (+) One(Leaked(kind, TRUE)) ELSE lk

\* buildAuditBody throws a TypeError on a null finding (item.error of null)
BuildAuditBodyThrows(item) == item = "null"

\* renderItem of the audit carousel: meta is written before buildAuditBody runs, the
\* content and the disabled flags after it
RenderAuditItem(m, index) ==
  IF BuildAuditBodyThrows(m.items[index + 1])
  THEN [m EXCEPT !.meta = index]
  ELSE [m EXCEPT !.meta = index, !.shown = index,
                 !.prevDis = (index = 0), !.nextDis = (index = Len(m.items) - 1)]

\* renderItem of the result carousel: buildResultBody never throws
RenderResultItem(m, index) ==
  [m EXCEPT !.meta = index, !.shown = index,
            !.prevDis = (index = 0), !.nextDis = (index = Len(m.items) - 1)]

RenderItem(m, index) ==
  IF m.kind = "audit" THEN RenderAuditItem(m, index) ELSE RenderResultItem(m, index)

\* prevBtn / nextBtn click listeners
PrevHandler(m) ==
  IF m.idx > 0 THEN RenderItem([m EXCEPT !.idx = m.idx - 1], m.idx - 1) ELSE m

NextHandler(m) ==
  IF m.idx < Len(m.items) - 1 THEN RenderItem([m EXCEPT !.idx = m.idx + 1], m.idx + 1) ELSE m

\* showErrorPopup: a second popup is not created while one is shown
ShowErrorPopup(cur, msg) == IF cur # "" THEN cur ELSE msg

\* ensureCredentials
EnsureCredentialsTokenOnly(token, user) == token # ""

EnsureCredentials(token, user) == token # "" /\ user # ""

\* ------------------------------------------------------------------ audit replies
\* The answer string of the model, by what JSON.parse makes of it.
AuditElems == {"null", "object"}

AuditAnswers ==
  {[t |-> x, errors |-> <<>>] : x \in {"text", "jsonnull", "scalar", "noerrors", "nonarray"}}
  \cup {[t |-> "array", errors |-> e] : e \in SeqsUpTo(AuditElems, MaxItems)}

\* JSON.parse inside try/catch: null when the text is no JSON
ParseJson(ans) ==
  IF ans.t \in {"text", "jsonnull"} THEN [truthy |-> FALSE, isArray |-> FALSE, errors |-> <<>>]
  ELSE IF ans.t \in {"scalar", "noerrors", "nonarray"}
       THEN [truthy |-> TRUE, isArray |-> FALSE, errors |-> <<>>]
       ELSE [truthy |-> TRUE, isArray |-> TRUE, errors |-> ans.errors]

NoOutcome == [answer |-> [t |-> "none", errors |-> <<>>], pres |-> "none"]

\* ------------------------------------------------------------------ runs
\* modal: "none", or for an ask run that has built its modal and not yet appended it,
\* "armed" (its listeners are registered) or "disarmed" (they have been detached)
\* n: the number of directives of the run; sent: the directives (by position in the
\* extracted list) whose request has been dispatched, in order; results: what the
\* replies handled so far produced
Run(kind, stage) ==
  [kind |-> kind, stage |-> stage, n |-> 0, sent |-> <<>>, results |-> <<>>, modal |-> "none"]

\* the for-of loop of runComputeAi / runComputeAiV2 after the reply for its current
\* directive has been handled: it moves to the next directive, whatever the reply was
DispatchRetry(sent, answered) ==
  IF answered THEN Append(sent, sent[Len(sent)] + 1) ELSE Append(sent, sent[Len(sent)])

Dispatch(sent, answered) == Append(sent, sent[Len(sent)] + 1)

\* showLoadingSpinner / hideLoadingSpinner on the one #mathematica-loading-spinner
ShowLoadingSpinner(sp) == TRUE

HideLoadingSpinnerStuck(sp) == sp

HideLoadingSpinner(sp) == FALSE

Replace(rs, r, q) == (rs (-) One(r)) (+) One(q)

\* ------------------------------------------------------------------ chat data
Rooms == {"A", "B"}
RoomInputs == {"", "A", "B"}      \* roomInput.value.trim()

Msgs == {[username |-> "bob", timestamp |-> "t1", content |-> "hi"]}

Snapshots == SeqsUpTo(Msgs, MaxMsgs)

\* the reply of the request channel to onechatGet: success with a message list, or a
\* failure (channel error, non-success status, no message array)
GetReplies == {[ok |-> TRUE, msgs |-> m] : m \in Snapshots} \cup {[ok |-> FALSE, msgs |-> <<>>]}

\* oneChatGet: every failure yields the empty list
OneChatGet(resp) == IF resp.ok THEN resp.msgs ELSE <<>>

SigLine(m) == m.username \o "|" \o m.timestamp \o "|" \o m.content

RECURSIVE JoinLines(_)
JoinLines(msgs) ==
  IF Len(msgs) = 1 THEN SigLine(msgs[1])
  ELSE SigLine(msgs[1]) \o "\n" \o JoinLines(Tail(msgs))

\* a signature whose empty case carries no room id
SignatureBare(msgs, room) == IF Len(msgs) = 0 THEN "empty" ELSE JoinLines(msgs)

\* the signature loadMessages computes for a fetched list
Signature(msgs, room) == IF Len(msgs) = 0 THEN "empty:" \o room ELSE JoinLines(msgs)

\* loadMessages: if (forceRender || signature !== lastMessagesSignature)
ShouldRender(force, sig, last) == force \/ sig # last

NoReq == [roomId |-> "", username |-> "", content |-> ""]

\* What the last step did, for the steps the properties below speak about.
\* what: "none"; "reply" (loadMessages handled the reply of its fetch); "skipped"
\* (loadMessages returned at its guard); "needRoom" / "needUser" (the status text of a
\* rejected send or attach); "sending" (a send or attach was put on the channel);
\* "relayed" (oneChatSend returned).  owner: the caller.
\* same: the poll fetched the list the previous poll fetched; rendered: the list was
\* re-rendered; room: currentRoomId at that moment; user: the identity of the send or
\* attach; http: the relay made its HTTP call
NoNote == [what |-> "none", owner |-> "none", same |-> FALSE, rendered |-> FALSE,
           room |-> "", user |-> "", http |-> FALSE]

Note(what, owner) == [NoNote EXCEPT !.what = what, !.owner = owner]

IdleLoad == [awaiting |-> FALSE, owner |-> "none", stb |-> FALSE, force |-> FALSE]

NoPoll == [has |-> FALSE, msgs |-> <<>>]

Blank == [blank |-> TRUE, msgs |-> <<>>]

\* updateView: landing or chat view by currentRoomId
ViewOf(room) == IF room = "" THEN "landing" ELSE "chat"

\* The closure state of one runChatModal invocation.
\* room: currentRoomId; user: currentUsername; polling: pollingId !== null (an interval
\* timer is active); lastSig: lastMessagesSignature; shown: messagesContainer's content;
\* load: the loadMessages call that is awaiting; tasks: the handlers awaiting storage or
\* a send; view: what
\* updateView last displayed; sendDis / attachDis: the buttons' disabled attribute;
\* prevPoll: the list the previous poll fetched, if no join or send came since
NewPanel(room, user) ==
  [room |-> room, user |-> user, polling |-> FALSE, isLoading |-> FALSE, lastSig |-> "",
   shown |-> Blank, load |-> IdleLoad, tasks |-> EmptyBag, view |-> "initial",
   sendDis |-> (user = ""), attachDis |-> (user = ""), prevPoll |-> NoPoll]

Task(kind, req) == [kind |-> kind, req |-> req]

\* loadMessages: if (!currentRoomId || isLoading) return
CanLoad(p) == p.room # "" /\ ~p.isLoading

\* loadMessages up to its await of oneChatGet
StartLoad(p, stb, force, owner) ==
  [p EXCEPT !.isLoading = TRUE,
            !.load = [awaiting |-> TRUE, owner |-> owner, stb |-> stb, force |-> force]]

\* stopPolling / startPolling
StopPolling(p) == [p EXCEPT !.polling = FALSE]

StartPolling(p) == [StopPolling(p) EXCEPT !.polling = TRUE]

\* what the caller of loadMessages does once it has returned
AfterLoad(p, owner) ==
  IF owner \in {"join", "init"} THEN [StartPolling(p) EXCEPT !.view = ViewOf(p.room)]
  ELSE IF owner = "rejoin" THEN [p EXCEPT !.view = ViewOf(p.room)]
  ELSE p

\* the end of loadMessages (isLoading = false) and the caller's continuation
FinishLoad(p) == AfterLoad([p EXCEPT !.isLoading = FALSE, !.load = IdleLoad], p.load.owner)

\* A panel out of the tree has no reachable controls.  What it can still do: its timer
\* ticks (polling), a pending applyRoom / runChatModal continuation reaches
\* startPolling() (starts), its document listeners fire (listeners).
\* closed: its close() has run.
PendingStart(p) ==
  \/ p.load.owner \in {"join", "init"}
  \/ \E t \in BagToSet(p.tasks) : t.kind = "join"

Detached(closed, polling, starts, listeners) ==
  [closed |-> closed, polling |-> polling, starts |-> starts, listeners |-> listeners]

Gone(z) == ~z.polling /\ ~z.starts /\ ~z.listeners

\* existingOverlay.remove() of a chat panel: nothing but the overlay changes
Replaced(p) == Detached(FALSE, p.polling, PendingStart(p), TRUE)

\* close() of createChatModalContainer: detachEscape(), onClose() = stopPolling(),
\* overlay.remove(), removeEventListener('mousedown', ...)
Closed(p) == Detached(TRUE, StopPolling(p).polling, PendingStart(p), FALSE)

CloseDetached(z) == IF z.listeners THEN Detached(TRUE, FALSE, z.starts, FALSE) ELSE z

RECURSIVE SumCopies(_, _)
SumCopies(S, B) ==
  IF S = {} THEN 0
  ELSE LET x == CHOOSE y \in S : TRUE IN B[x] + SumCopies(S \ {x}, B)

\* every panel of the bag B whose listeners are registered runs close(); those that
\* can do nothing any more are dropped
CloseAllDetached(B) ==
  LET img == {z \in {CloseDetached(x) : x \in DOMAIN B} : ~Gone(z)}
  IN [y \in img |-> SumCopies({x \in DOMAIN B : CloseDetached(x) = y}, B)]

RECURSIVE AddAll(_, _, _)
AddAll(B, ps, k) ==
  IF k > Len(ps) THEN B
  ELSE AddAll(IF Gone(ps[k]) THEN B ELSE B (+) One(ps[k]), ps, k + 1)

\* handleOneChatSend of the background relay: the HTTP POST is made only for a request
\* with a room, a username and a content
HandleOneChatSend(req, httpOk) ==
  IF req.roomId = "" \/ req.username = "" \/ req.content = ""
  THEN [status |-> "invalid_payload", http |-> FALSE]
  ELSE [status |-> IF httpOk THEN "success" ELSE "error", http |-> TRUE]

\* oneChatSend: true when the channel delivered a reply with status success
OneChatSend(req, channelOk, httpOk) ==
  channelOk /\ HandleOneChatSend(req, httpOk).status = "success"

SendGuardNoUser(p, emptyMsg) ==
  IF p.room = "" THEN "needRoom"
  ELSE IF emptyMsg THEN "emptyMsg"
  ELSE ""

\* the guards of the sendBtn click listener, in order; "" when the send goes ahead
SendGuard(p, emptyMsg) ==
  IF p.room = "" THEN "needRoom"
  ELSE IF p.user = "" THEN "needUser"
  ELSE IF emptyMsg THEN "emptyMsg"
  ELSE ""

\* the guards of the attachBtn click listener, in order
AttachGuard(p, hasNotebook) ==
  IF p.room = "" THEN "needRoom"
  ELSE IF p.user = "" THEN "needUser"
  ELSE IF ~hasNotebook THEN "noNotebook"
  ELSE ""

\* ------------------------------------------------------------------ directives
\* Text is a sequence of tokens: the characters "[", "]", ":" and " ", the words
\* "Math", "Wolfram", "Explain" (and "math", "Math" in another letter case), and other
\* words ("x", "y").
Labels == {"Math", "Wolfram", "Explain"}

\* the whitespace among the tokens
WhiteSpace == {" ", "\n"}

RECURSIVE SkipWs(_, _)
\* \s* from position i: the position after the whitespace
SkipWs(t, i) == IF i <= Len(t) /\ t[i] \in WhiteSpace THEN SkipWs(t, i + 1) ELSE i

RECURSIVE IndexOfFrom(_, _, _)
\* the first position >= i of token x in t, 0 if there is none
IndexOfFrom(t, x, i) ==
  IF i > Len(t) THEN 0
  ELSE IF t[i] = x THEN i
  ELSE IndexOfFrom(t, x, i + 1)

RECURSIVE TrimStart(_)
TrimStart(t) == IF t # <<>> /\ t[1] \in WhiteSpace THEN TrimStart(Tail(t)) ELSE t

RECURSIVE TrimEnd(_)
TrimEnd(t) ==
  IF t # <<>> /\ t[Len(t)] \in WhiteSpace THEN TrimEnd(SubSeq(t, 1, Len(t) - 1)) ELSE t

\* String.prototype.trim
Trim(t) == TrimEnd(TrimStart(t))

LabelMatchesAnyCase(tok, label) == (IF tok = "math" THEN "Math" ELSE tok) = label

\* the regular expressions have no i flag: the label is matched in exact case
LabelMatches(tok, label) == tok = label

\* /\[\s*Label\s*:\s*(.*?)\]/ tried at position i of t: the label position, the colon
\* position and the position of the closing bracket (the first one after the colon,
\* the group being lazy); end = 0 when there is no match at i
MatchAt(t, i, label) ==
  LET j == SkipWs(t, i + 1)
      k == SkipWs(t, j + 1)
      e == IndexOfFrom(t, "]", k + 1)
      ok == /\ i <= Len(t) /\ t[i] = "["
            /\ j <= Len(t) /\ LabelMatches(t[j], label)
            /\ k <= Len(t) /\ t[k] = ":"
            /\ e # 0
  IN [end |-> IF ok THEN e ELSE 0, colon |-> k]

RECURSIVE ExecAll(_, _, _)
\* while ((match = regex.exec(text)) !== null) push(match[1].trim()), from position i
ExecAll(t, label, i) ==
  IF i > Len(t) THEN <<>>
  ELSE LET m == MatchAt(t, i, label)
       IN IF m.end # 0
          THEN <<Trim(SubSeq(t, m.colon + 1, m.end - 1))>> \o ExecAll(t, label, m.end + 1)
          ELSE ExecAll(t, label, i + 1)

\* object: the element a directive is anchored to
NoAnchor == [kind |-> "undefined", index |-> 0]

BodyAnchor == [kind |-> "body", index |-> 0]

Directive(kind, object, content) == [directive |-> kind, object |-> object, content |-> content]

\* matches.forEach((content, index) => directives.push({..., object: spans[index]}))
Anchored(kind, matches, count) ==
  [k \in 1..Len(matches) |->
     Directive(kind, IF k <= count THEN [kind |-> kind, index |-> k] ELSE NoAnchor,
               matches[k])]

\* getAllMathPlusDirectives: notebook says whether the page has a .notebook element,
\* spans[kind] is the number of its span elements whose text includes the kind's label
GetAllMathPlusDirectives(notebook, t, spans) ==
  IF ~notebook THEN <<>>
  ELSE Anchored("Math", ExecAll(t, "Math", 1), spans["Math"])
       \o Anchored("Wolfram", ExecAll(t, "Wolfram", 1), spans["Wolfram"])
       \o Anchored("Explain", ExecAll(t, "Explain", 1), spans["Explain"])

OfKind(kind, matches) == [k \in 1..Len(matches) |-> Directive(kind, BodyAnchor, matches[k])]

RECURSIVE GetAllDirectivesFromNotebookCells(_)
GetAllDirectivesFromNotebookCells(cells) ==
  IF cells = <<>> THEN <<>>
  ELSE OfKind("Math", ExecAll(cells[1], "Math", 1))
       \o OfKind("Wolfram", ExecAll(cells[1], "Wolfram", 1))
       \o OfKind("Explain", ExecAll(cells[1], "Explain", 1))
       \o GetAllDirectivesFromNotebookCells(Tail(cells))

\* the pieces notebook texts are built from; a token stands for a character of a line
Pads == {<<>>, <<" ">>}

Contents == {<<"x">>, <<" ", "y", " ">>, <<"x", "]", "y">>}

DirectiveText(p1, label, p2, c) == <<"[">> \o p1 \o <<label>> \o p2 \o <<":">> \o c \o <<"]">>

Chunks ==
  {DirectiveText(p1, label, p2, c) :
     p1 \in Pads, label \in Labels \cup {"math"}, p2 \in Pads, c \in Contents}

RECURSIVE Concat(_)
Concat(ss) == IF ss = <<>> THEN <<>> ELSE ss[1] \o Concat(Tail(ss))

Docs == {Concat(cs) : cs \in SeqsUpTo(Chunks, MaxChunks)}

SpanCounts == [Labels -> 0..MaxSpans]

NoSpans == [l \in Labels |-> 0]

\* how: "none", "cells" (getAllDirectivesFromNotebookCells) or "anchors"
\* (getAllMathPlusDirectives); spans: the span counts of the latter
NoDirectives == [how |-> "none", spans |-> NoSpans, list |-> <<>>]

\* ------------------------------------------------------------------ fetchAIResponse
\* JavaScript's null and undefined
Null == "<null>"

Undefined == "<undefined>"

\* allowedAiModels
AiModels == {"gpt-4.1", "gpt-4o"}

\* the prompts of the three directive kinds
Prompts == {"Math", "Wolfram", "Explain"}

\* data.content of the AI service's reply: a text, the empty text or no field
AnswerTexts == {"a", "b", "", Undefined}

NoResponse == [status |-> "none", answer |-> Undefined]

Response(status, answer) == [status |-> status, answer |-> answer]

\* stage: "idle", "sent" (the message is with the relay), "http" (aiOneAnswer awaits
\* the service), "replied" (the callback ran) or "returned"; lastError as the
\* callback of sendMessage finds chrome.runtime.lastError
NoFetch ==
  [stage |-> "idle", prompt |-> "", model |-> "", lastError |-> FALSE,
   response |-> NoResponse, result |-> Undefined]

\* answer || null
AnswerOrNull(answer) == IF answer \in {Undefined, ""} THEN Null ELSE answer

\* the value fetchAIResponse returns for the response its promise resolved with
FetchResult(response) ==
  IF response.status = "success" THEN AnswerOrNull(response.answer) ELSE Null

\* ------------------------------------------------------------------ renderLatex
\* the characters the rendered texts are made of; "__MATH_0__" stands for that run of
\* characters written in the text itself
Chars == {"$", "x", " ", "\n", "#", "*", "<", "__MATH_0__"}

Texts == SeqsUpTo(Chars, MaxLen)

RECURSIVE IndexOf(_, _, _)
\* String.prototype.indexOf(pat, from) for positions from 1: 0 when pat does not occur
IndexOf(t, pat, from) ==
  IF from + Len(pat) - 1 > Len(t) THEN 0
  ELSE IF SubSeq(t, from, from + Len(pat) - 1) = pat THEN from
  ELSE IndexOf(t, pat, from + 1)

\* `__MATH_${tokens.length}__`
Placeholder(n) == <<"__MATH_0__", "__MATH_1__", "__MATH_2__">>[n + 1]

Delimiter(display) == IF display THEN <<"$", "$">> ELSE <<"$">>

RECURSIVE Scan(_, _, _, _)
\* the while loop of renderLatex from position i, with the spans and the text so far
Scan(t, i, tokens, result) ==
  IF i > Len(t) THEN [tokens |-> tokens, result |-> result]
  ELSE LET isDisplay == i + 1 <= Len(t) /\ t[i + 1] = "$"
           start == i + Len(Delimiter(isDisplay))
           end == IndexOf(t, Delimiter(isDisplay), start)
           token == Placeholder(Len(tokens))
       IN IF t[i] = "$" /\ end # 0
          THEN Scan(t, end + Len(Delimiter(isDisplay)),
                    Append(tokens, [token |-> token, tex |-> SubSeq(t, start, end - 1),
                                    display |-> isDisplay]),
                    Append(result, token))
          ELSE Scan(t, i + 1, tokens, Append(result, t[i]))

RECURSIVE Split(_, _)
\* normalized.split('\n'), cur being the line under way
Split(t, cur) ==
  IF t = <<>> THEN <<cur>>
  ELSE IF t[1] = "\n" THEN <<cur>> \o Split(Tail(t), <<>>)
  ELSE Split(Tail(t), Append(cur, t[1]))

RECURSIVE LeadingHashes(_)
LeadingHashes(line) ==
  IF line # <<>> /\ line[1] = "#" THEN 1 + LeadingHashes(Tail(line)) ELSE 0

\* line.match(/^(#{1,6})\s+(.+)$/): the heading level, 0 when the line is no heading
HeadingLevel(line) ==
  LET h == LeadingHashes(line)
  IN IF h \in 1..6 /\ Len(line) >= h + 2 /\ line[h + 1] \in WhiteSpace THEN h ELSE 0

\* line.match(/^[-*]\s+(.+)$/)
IsListItem(line) ==
  Len(line) >= 3 /\ line[1] \in {"-", "*"} /\ line[2] \in WhiteSpace

HeadingOpen(level) ==
  <<"<div md-h1>", "<div md-h2>", "<div md-h3>", "<div md-h4>", "<div md-h5>",
    "<div md-h6>">>[level]

RECURSIVE RenderLines(_, _)
\* the loop of renderMarkdown over the lines, and the closing of a list left open
RenderLines(lines, inList) ==
  IF lines = <<>> THEN (IF inList THEN <<"</ul>">> ELSE <<>>)
  ELSE LET line == lines[1]
           level == HeadingLevel(line)
           close == IF inList THEN <<"</ul>">> ELSE <<>>
       IN IF level # 0
          THEN close \o <<HeadingOpen(level)>>
               \o Trim(SubSeq(line, level + 1, Len(line))) \o <<"</div>">>
               \o RenderLines(Tail(lines), FALSE)
          ELSE IF IsListItem(line)
          THEN (IF inList THEN <<>> ELSE <<"<ul>">>)
               \o <<"<li>">> \o Trim(SubSeq(line, 2, Len(line))) \o <<"</li>">>
               \o RenderLines(Tail(lines), TRUE)
          ELSE close
               \o (IF Trim(line) = <<>> THEN <<"<div md-line-empty></div>">>
                   ELSE <<"<div md-line>">> \o line \o <<"</div>">>)
               \o RenderLines(Tail(lines), FALSE)

RECURSIVE Bold(_, _)
\* result.replace(/\*\*([^*]+)\*\*/g, '<strong>$1</strong>') from position i
Bold(t, i) ==
  IF i > Len(t) THEN <<>>
  ELSE LET j == IndexOfFrom(t, "*", i + 2)
           ok == /\ i + 1 <= Len(t) /\ t[i] = "*" /\ t[i + 1] = "*"
                 /\ j > i + 2 /\ j + 1 <= Len(t) /\ t[j + 1] = "*"
       IN IF ok
          THEN <<"<strong>">> \o SubSeq(t, i + 2, j - 1) \o <<"</strong>">> \o Bold(t, j + 2)
          ELSE <<t[i]>> \o Bold(t, i + 1)

\* renderMarkdown (the texts hold no carriage return)
RenderMarkdown(text) == Bold(RenderLines(Split(text, <<>>), FALSE), 1)

\* what katex.renderToString returns: markup that holds the trimmed source
Katex(item) ==
  LET tex == Trim(item.tex)
  IN <<IF item.display THEN "<katex display>" ELSE "<katex>">>
     \o [k \in 1..Len(tex) |-> IF tex[k] = "<" THEN "&lt;" ELSE tex[k]]
     \o <<"</katex>">>

\* the replacement of the catch block
Fallback(item) == Delimiter(item.display) \o item.tex \o Delimiter(item.display)

RenderSpanUncaught(item, throws) ==
  [raised |-> throws, replacement |-> IF throws THEN <<item.token>> ELSE Katex(item)]

\* the try and catch around katex.renderToString
RenderSpan(item, throws) ==
  [raised |-> FALSE, replacement |-> IF throws THEN Fallback(item) ELSE Katex(item)]

RECURSIVE Expand(_)
\* the replacement patterns of String.prototype.replace: $$ inserts one "$"
Expand(r) ==
  IF r = <<>> THEN <<>>
  ELSE IF Len(r) >= 2 /\ r[1] = "$" /\ r[2] = "$" THEN <<"$">> \o Expand(SubSeq(r, 3, Len(r)))
  ELSE <<r[1]>> \o Expand(Tail(r))

\* rendered.replace(token, replacement): the first occurrence only
ReplaceFirst(rendered, token, replacement) ==
  LET at == IndexOfFrom(rendered, token, 1)
  IN IF at = 0 THEN rendered
     ELSE SubSeq(rendered, 1, at - 1) \o Expand(replacement)
          \o SubSeq(rendered, at + 1, Len(rendered))

RECURSIVE Substitute(_, _, _, _)
\* the for loop of renderLatex over the spans from span k; throwing holds the numbers
\* of the spans for which the renderer throws
Substitute(rendered, tokens, k, throwing) ==
  IF k > Len(tokens) THEN [raised |-> FALSE, out |-> rendered]
  ELSE LET span == RenderSpan(tokens[k], k \in throwing)
       IN IF span.raised THEN [raised |-> TRUE, out |-> rendered]
          ELSE Substitute(ReplaceFirst(rendered, tokens[k].token, span.replacement),
                          tokens, k + 1, throwing)

\* stage: "idle", "input" (renderLatex was called with text), "scanned" (its while
\* loop is done) or "done"
NoRender ==
  [stage |-> "idle", text |-> <<>>, tokens |-> <<>>, result |-> <<>>, throwing |-> {},
   out |-> <<>>, raised |-> FALSE]

\* ------------------------------------------------------------------ token validation
\* stage: "idle", "waiting" (the save handler awaits validateToken) or "reported";
\* timer: the 8 s timeout is armed; relay: "none", "sent" (the message is with
\* handleValidateAccessToken), "http" (validateAccessToken awaits the server),
\* "responded" (sendResponse was called) or "done" (the callback of sendMessage ran);
\* settled and value: the promise of validateToken; resolved: how often the handler
\* went on after its await; timedOut and reply: what has happened to this validation
NoValidation ==
  [stage |-> "idle", token |-> "", user |-> "", timer |-> FALSE, relay |-> "none",
   response |-> "none", settled |-> FALSE, value |-> FALSE, resolved |-> 0,
   reported |-> "none", timedOut |-> FALSE, reply |-> "none", late |-> FALSE,
   status |-> "", disabled |-> FALSE]

\* what the token input of the popup may hold
TokenInputs == Tokens \cup {"new"}

SettleAgain(v, valid) ==
  [v EXCEPT !.settled = TRUE, !.value = valid, !.stage = "reported",
            !.resolved = IF @ < MaxResolved THEN @ + 1 ELSE @,
            !.reported = IF valid THEN "valid" ELSE "invalid",
            !.status = IF valid THEN "saved" ELSE "invalid token",
            !.disabled = FALSE]

\* resolve(valid) of the promise and, when this settles it, the rest of the save
\* handler: a settled promise stays as it is
Settle(v, valid) ==
  IF v.settled THEN v ELSE SettleAgain(v, valid)

\* ------------------------------------------------------------------ scroll restore
Offsets == 0..MaxOffset

\* scrollTop = scrollHeight: the bottom of the list
Bottom == MaxOffset

\* the keys setChatScrollPosition can write: a room id, or '' when no room is joined
Keys == Rooms \cup {""}

\* chatScrollPositions: a key's entry is <<>> (no number stored) or <<offset>>; the
\* maps a panel can be opened over have offsets short of the bottom for some rooms
Positions ==
  {ps \in [Keys -> {<<>>} \cup {<<o>> : o \in Offsets \ {Bottom}}] : ps[""] = <<>>}

NoPositions == [r \in Keys |-> <<>>]

\* What the last step did to the list.  what: "none", "render" (renderChatMessages
\* ran), "applied" (scrollTop = savedPos), "scroll" (the scroll listener ran), "fired"
\* (the save timeout ran setChatScrollPosition); auto: the render scrolled to the
\* bottom; restoring: the render went on to read the saved offset; roomId: the room the
\* rendered list was fetched for, or the key of the write; current: currentRoomId
\* before the step; armed: the room that was current at the scroll event that set the
\* timeout
NoLast == [what |-> "none", auto |-> FALSE, restoring |-> FALSE, roomId |-> "",
           current |-> "", armed |-> ""]

Last(what, auto, restoring) ==
  [NoLast EXCEPT !.what = what, !.auto = auto, !.restoring = restoring]

\* The closure state of one runChatModal invocation, as far as scrolling goes.
\* stage: "closed" before the panel exists; load: "idle", "fetch" (loadMessages awaits
\* oneChatGet) or "position" (it awaits loadChatScrollPosition); stb, force, owner: the
\* arguments and the caller of that loadMessages call; arg: the room id passed to
\* loadChatScrollPosition; fetched: the room id passed to oneChatGet; joining /
\* leaving: applyRoom / the leave handler awaits setStoredChatRoomId; raf: a
\* requestAnimationFrame callback is pending; timers: the pending timeouts of the scroll
\* listener; armed: the room that was current when the last of them was set.
\* History: restores counts the assignments scrollTop = savedPos; switched: applyRoom
\* has changed the room or the leave handler has run; renders counts the renders made
\* while the room was restoreScrollRoomId; burst: the scroll events that have set a
\* timeout since none was pending; fired: the timeouts that have run since the last of
\* those events; last: what the last step did
NoScroll ==
  [stage |-> "closed", currentRoomId |-> "", restoreScrollRoomId |-> "",
   didRestoreScroll |-> FALSE, isInitialLoad |-> TRUE, autoScrollEnabled |-> TRUE,
   isLoading |-> FALSE, lastMessagesSignature |-> "", pollingId |-> FALSE,
   load |-> "idle", stb |-> FALSE, force |-> FALSE, owner |-> "none", arg |-> "",
   fetched |-> "", joining |-> FALSE, leaving |-> FALSE, raf |-> FALSE,
   scrollTop |-> 0, positions |-> NoPositions, timers |-> 0, armed |-> "",
   restores |-> 0, switched |-> FALSE, renders |-> 0, burst |-> 0, fired |-> 0,
   last |-> NoLast]

Quiet30(s) == [s EXCEPT !.last = NoLast]

\* what the caller of loadMessages does once it has returned: runChatModal and
\* applyRoom start the poll timer, applyRoom also requests an animation frame
Continue(s, owner) ==
  IF owner = "init" THEN [s EXCEPT !.pollingId = TRUE]
  ELSE IF owner = "join" THEN [s EXCEPT !.pollingId = TRUE, !.raf = TRUE]
  ELSE s

\* loadMessages(scrollToBottom, forceRender) up to its await of oneChatGet, or its
\* return at the guard and what the caller does next
LoadMessages(s, stb, force, owner) ==
  IF s.currentRoomId = "" \/ s.isLoading THEN Continue(s, owner)
  ELSE [s EXCEPT !.isLoading = TRUE, !.load = "fetch", !.stb = stb, !.force = force,
                 !.owner = owner, !.fetched = s.currentRoomId]

\* the end of loadMessages: isInitialLoad and isLoading are cleared, the caller goes on
EndLoad(s) ==
  Continue([s EXCEPT !.isInitialLoad = FALSE, !.isLoading = FALSE, !.load = "idle",
                     !.stb = FALSE, !.force = FALSE, !.owner = "none", !.arg = "",
                     !.fetched = ""],
           s.owner)

\* loadMessages: if (!didRestoreScroll && restoreScrollRoomId &&
\*                   currentRoomId === restoreScrollRoomId)
ShouldRestore(s) ==
  /\ ~s.didRestoreScroll
  /\ s.restoreScrollRoomId # ""
  /\ s.currentRoomId = s.restoreScrollRoomId

\* loadMessages: else if (!isInitialLoad && (scrollToBottom || autoScrollEnabled))
ShouldAutoScroll(s) == ~s.isInitialLoad /\ (s.stb \/ s.autoScrollEnabled)

\* runChatModal: the stored room and identity are read, the panel is built, and with
\* both present the initial loadMessages(true) is started
OpenChatPanel ==
  /\ scroll.stage = "closed"
  /\ LET s == [scroll EXCEPT !.stage = "open", !.currentRoomId = storedRoom,
                             !.restoreScrollRoomId = storedRoom]
     IN scroll' = IF storedRoom # "" /\ storedUser # ""
                  THEN LoadMessages(s, TRUE, FALSE, "init")
                  ELSE s
  /\ UNCHANGED <<credVars, modalVars, chatVars, notebookText, directives, fetch, latex,
                 validation, unitVars>>

\* the interval callback of startPolling: loadMessages(false)
IntervalTick ==
  /\ scroll.stage = "open" /\ scroll.pollingId
  /\ scroll' = LoadMessages(Quiet30(scroll), FALSE, FALSE, "poll")
  /\ UNCHANGED <<credVars, modalVars, chatVars, notebookText, directives, fetch, latex,
                 validation, unitVars>>

\* loadMessages from the reply of oneChatGet: the signature test, the render, and
\* either the await of loadChatScrollPosition, or the scroll to the bottom and the end
MessagesFetched(messages) ==
  /\ scroll.load = "fetch"
  /\ LET s == scroll
         signature == Signature(messages, s.currentRoomId)
         Rendered(auto, restoring) ==
           [Last("render", auto, restoring) EXCEPT !.roomId = s.fetched,
                                                   !.current = s.currentRoomId]
         rendered == [s EXCEPT !.lastMessagesSignature = signature,
                               !.renders = IF s.currentRoomId = s.restoreScrollRoomId
                                              /\ @ < MaxRenders
                                           THEN @ + 1 ELSE @]
     IN scroll' =
          IF ~ShouldRender(s.force, signature, s.lastMessagesSignature)
          THEN EndLoad(Quiet30(s))
          ELSE IF ShouldRestore(s)
          THEN [rendered EXCEPT !.load = "position", !.arg = s.currentRoomId,
                                !.fetched = "", !.last = Rendered(FALSE, TRUE)]
          ELSE IF ShouldAutoScroll(s)
          THEN EndLoad([rendered EXCEPT !.scrollTop = Bottom,
                                        !.last = Rendered(TRUE, FALSE)])
          ELSE EndLoad([rendered EXCEPT !.last = Rendered(FALSE, FALSE)])
  /\ UNCHANGED <<credVars, modalVars, chatVars, notebookText, directives, fetch, latex,
                 validation, unitVars>>

\* a reply of the remote room whose message has no content string: the relay and
\* oneChatGet pass on any array
Malformed == <<[username |-> "bob", timestamp |-> "t1", content |-> "<undefined>"]>>

\* renderChatMessages: msg.content.includes(...) throws for a content that is no string
RenderThrows(messages) ==
  \E i \in 1..Len(messages) : messages[i].content = "<undefined>"

\* loadMessages from the reply of oneChatGet when renderChatMessages throws: the
\* signature is assigned, the exception leaves loadMessages and rejects its caller's
\* await, so neither the end of loadMessages nor the caller's continuation runs
MessagesUnrendered(messages) ==
  /\ scroll.load = "fetch"
  /\ RenderThrows(messages)
  /\ LET s == scroll
         signature == Signature(messages, s.currentRoomId)
     IN /\ ShouldRender(s.force, signature, s.lastMessagesSignature)
        /\ scroll' = [Quiet30(s) EXCEPT !.lastMessagesSignature = signature,
                                        !.load = "idle", !.stb = FALSE, !.force = FALSE,
                                        !.owner = "none", !.fetched = ""]
  /\ UNCHANGED <<credVars, modalVars, chatVars, notebookText, directives, fetch, latex,
                 validation, unitVars>>

\* loadChatScrollPosition returns: a stored number is assigned to scrollTop,
\* didRestoreScroll is set, and loadMessages ends
LoadChatScrollPosition ==
  /\ scroll.load = "position"
  /\ LET s == scroll
         savedPos == s.positions[s.arg]
         applied == IF savedPos # <<>>
                    THEN [s EXCEPT !.scrollTop = savedPos[1],
                                   !.restores = IF @ < MaxRestores THEN @ + 1 ELSE @,
                                   !.last = Last("applied", FALSE, FALSE)]
                    ELSE Quiet30(s)
     IN scroll' = EndLoad([applied EXCEPT !.didRestoreScroll = TRUE])
  /\ UNCHANGED <<credVars, modalVars, chatVars, notebookText, directives, fetch, latex,
                 validation, unitVars>>

\* applyRoom with value = roomInput.value.trim(), non-empty, up to its first await
SubmitRoom(value) ==
  /\ scroll.stage = "open" /\ ~scroll.joining /\ ~scroll.leaving
  /\ IF value = scroll.currentRoomId
     THEN /\ scroll' = LoadMessages([Quiet30(scroll) EXCEPT !.lastMessagesSignature = ""],
                                    TRUE, TRUE, "rejoin")
          /\ UNCHANGED storedRoom
     ELSE /\ scroll' = [Quiet30(scroll) EXCEPT !.didRestoreScroll = TRUE,
                                               !.currentRoomId = value,
                                               !.joining = TRUE, !.switched = TRUE]
          /\ storedRoom' = value
  /\ UNCHANGED <<credVars, modalVars, panels, detached, opening, note, notebookText,
                 directives, fetch, latex, validation, unitVars>>

\* applyRoom after setStoredChatRoomId: the signature is reset, loadMessages(true)
RoomStored ==
  /\ scroll.joining
  /\ scroll' = LoadMessages([Quiet30(scroll) EXCEPT !.joining = FALSE,
                                                    !.lastMessagesSignature = ""],
                            TRUE, FALSE, "join")
  /\ UNCHANGED <<credVars, modalVars, chatVars, notebookText, directives, fetch, latex,
                 validation, unitVars>>

\* requestAnimationFrame(() => { scrollTop = scrollHeight })
AnimationFrame ==
  /\ scroll.raf
  /\ scroll' = [Quiet30(scroll) EXCEPT !.raf = FALSE, !.scrollTop = Bottom]
  /\ UNCHANGED <<credVars, modalVars, chatVars, notebookText, directives, fetch, latex,
                 validation, unitVars>>

\* the leaveRoomBtn click listener up to its await of setStoredChatRoomId('')
LeaveRoom ==
  /\ scroll.stage = "open" /\ scroll.currentRoomId # ""
  /\ ~scroll.joining /\ ~scroll.leaving
  /\ scroll' = [Quiet30(scroll) EXCEPT !.pollingId = FALSE, !.currentRoomId = "",
                                       !.leaving = TRUE, !.switched = TRUE]
  /\ storedRoom' = ""
  /\ UNCHANGED <<credVars, modalVars, panels, detached, opening, note, notebookText,
                 directives, fetch, latex, validation, unitVars>>

\* the leaveRoomBtn click listener after the await: innerHTML = '' empties the list
RoomLeft ==
  /\ scroll.leaving
  /\ scroll' = [Quiet30(scroll) EXCEPT !.leaving = FALSE, !.scrollTop = 0]
  /\ UNCHANGED <<credVars, modalVars, chatVars, notebookText, directives, fetch, latex,
                 validation, unitVars>>

\* a scroll listener that sets its timeout without clearing the pending one
ScheduleKeep(s) ==
  [s EXCEPT !.timers = IF @ < MaxTimers THEN @ + 1 ELSE @,
            !.armed = s.currentRoomId, !.fired = 0,
            !.burst = IF s.timers = 0 THEN 1 ELSE IF @ < MaxBurst THEN @ + 1 ELSE @]

\* the scroll listener's clearTimeout and setTimeout: one timeout is pending
Schedule(s) ==
  [s EXCEPT !.timers = 1, !.armed = s.currentRoomId, !.fired = 0,
            !.burst = IF s.timers = 0 THEN 1 ELSE IF @ < MaxBurst THEN @ + 1 ELSE @]

\* the scroll listener of the message list, the list having been scrolled to offset o
ScrollEvent(o) ==
  /\ scroll.stage = "open"
  /\ LET s == [scroll EXCEPT !.scrollTop = o,
                             !.last = [Last("scroll", FALSE, FALSE) EXCEPT
                                         !.current = scroll.currentRoomId]]
     IN scroll' = IF s.currentRoomId = "" THEN s ELSE Schedule(s)
  /\ UNCHANGED <<credVars, modalVars, chatVars, notebookText, directives, fetch, latex,
                 validation, unitVars>>

\* a timeout of the scroll listener runs: setChatScrollPosition(currentRoomId,
\* scrollTop) reads the stored offsets, sets the entry of that key and stores them
SaveTimeout ==
  /\ scroll.timers > 0
  /\ scroll' = [scroll EXCEPT
                  !.timers = @ - 1,
                  !.fired = IF @ < MaxFired THEN @ + 1 ELSE @,
                  !.positions[scroll.currentRoomId] = <<scroll.scrollTop>>,
                  !.last = [Last("fired", FALSE, FALSE) EXCEPT
                              !.roomId = scroll.currentRoomId,
                              !.current = scroll.currentRoomId,
                              !.armed = scroll.armed]]
  /\ UNCHANGED <<credVars, modalVars, chatVars, notebookText, directives, fetch, latex,
                 validation, unitVars>>

\* the change listener of the auto-scroll checkbox
ToggleAutoScroll ==
  /\ scroll.stage = "open"
  /\ scroll' = [Quiet30(scroll) EXCEPT !.autoScrollEnabled = ~@]
  /\ UNCHANGED <<credVars, modalVars, chatVars, notebookText, directives, fetch, latex,
                 validation, unitVars>>

\* ------------------------------------------------------------------ signatures
\* the messages of a room whose author and body hold the separators of the signature
RichMsgs ==
  {[username |-> u, timestamp |-> "t1", content |-> c] :
     u \in {"bob", "al"}, c \in {"hi", "yo", "hi\nbob|t1|hi"}}

RichSnapshots == SeqsUpTo(RichMsgs, MaxPolled)

\* room: currentRoomId; shown: the list in the message container (<<>> with blank TRUE
\* before the first render); lastSig: lastMessagesSignature; fetched: the list the last
\* poll fetched; polls: the polls that have replied
NoSigs ==
  [room |-> "", blank |-> TRUE, shown |-> <<>>, lastSig |-> "", fetched |-> <<>>,
   polls |-> 0]

\* the content script has been loaded and no handler has run
ProgramInit ==
  /\ storedToken = "tok"
  /\ storedUser = "me"
  /\ processingMode = "v2"
  /\ body = <<>>
  /\ leaked = EmptyBag
  /\ runs = EmptyBag
  /\ spinner = FALSE
  /\ errorPopup = ""
  /\ popups = 0
  /\ auditOutcome = NoOutcome
  /\ storedRoom = "A"
  /\ panels = <<>>
  /\ detached = EmptyBag
  /\ opening = EmptyBag
  /\ note = NoNote

\* The Ask modal.  open: the overlay is in the document; disabled and label: the send
\* button's disabled attribute and textContent; input: the question input's value,
\* trimmed; model: the model select's value; pending: the bag of the handleSend calls
\* awaiting fetchAIResponse, each with the originalLabel it has read and the model it
\* has sent; response: what the response area shows
NoAsk ==
  [open |-> FALSE, disabled |-> FALSE, label |-> "Zapytaj", input |-> "",
   model |-> "gpt-4.1", pending |-> EmptyBag, response |-> ""]

Sent(originalLabel, model) == [originalLabel |-> originalLabel, model |-> model]

\* The runComputeAiV2 call.  stage: "idle", "req" (it awaits fetchAIResponse), "done"
\* (the carousel is in the document), "none" (no directive was found); directives: what
\* the extraction returned; i: the directive of the request in flight; results: the
\* ModalItem array.  History: answers: what fetchAIResponse has returned, in order
NoBatch ==
  [stage |-> "idle", directives |-> <<>>, i |-> 0, results |-> <<>>, answers |-> <<>>]

AiErrorText == "Blad podczas pobierania odpowiedzi AI"

\* what fetchAIResponse can return
AiResults == {Null, "a", "b"}

\* a loop that pushes an item only for an answer
PushAnswered(results, dir, response) ==
  IF response = Null THEN results
  ELSE Append(results, [directive |-> dir.directive, content |-> dir.content,
                        response |-> response])

\* runComputeAiV2: results.push({directive, content, response}) with the error text
\* for a null response
PushResult(results, dir, response) ==
  Append(results, [directive |-> dir.directive, content |-> dir.content,
                   response |-> IF response = Null THEN AiErrorText ELSE response])

\* The page's isolated world.  attached: window.__mathematicaListenerAttached;
\* listeners: the onMessage listeners of content.ts; injections: the runs of the
\* content script.  History: last: the last message and the functions its listeners
\* called; started: how many times each function has been called
NoMessage == [type |-> "", action |-> "", called |-> <<>>]

ContentActions == {"runNotebookAuditV2", "runChatModal", "runAskAiModal", "runComputeAi"}

NoPage ==
  [attached |-> FALSE, listeners |-> 0, injections |-> 0, last |-> NoMessage,
   started |-> [f \in ContentActions |-> 0]]

UnitInit ==
  /\ ask = NoAsk
  /\ batch = NoBatch
  /\ page = NoPage
  /\ sigs = NoSigs

Init ==
  /\ ProgramInit
  /\ notebookText = <<>>
  /\ directives = NoDirectives
  /\ fetch = NoFetch
  /\ latex = NoRender
  /\ validation = NoValidation
  /\ scroll = NoScroll
  /\ UnitInit

\* ------------------------------------------------------------------ configuration
\* The extension popup stores a token or a chat identity (external collaborator).
SetCredentials(t, u) ==
  /\ <<t, u>> # <<storedToken, storedUser>>
  /\ storedToken' = t
  /\ storedUser' = u
  /\ auditOutcome' = NoOutcome
  /\ note' = NoNote
  /\ UNCHANGED <<chatState, pureVars>>
  /\ UNCHANGED <<processingMode, body, leaked, runs, spinner, errorPopup, popups>>

SetProcessingMode(m) ==
  /\ m # processingMode
  /\ processingMode' = m
  /\ auditOutcome' = NoOutcome
  /\ note' = NoNote
  /\ UNCHANGED <<chatState, pureVars>>
  /\ UNCHANGED <<credVars, body, leaked, runs, spinner, errorPopup, popups>>

\* ------------------------------------------------------------------ AI runs
\* content.ts: the runContentAction listener starts the handler of the action; the
\* handler runs up to its first await (ensureCredentials).
RunContentAction(action) ==
  /\ BagCardinality(runs) < MaxRuns
  /\ runs' = runs (+) One(Run(action, "creds"))
  /\ auditOutcome' = NoOutcome
  /\ note' = NoNote
  /\ UNCHANGED <<chatState, pureVars>>
  /\ UNCHANGED <<credVars, processingMode, body, leaked, spinner, errorPopup, popups>>

\* runComputeAi after ensureCredentials: next await is getStoredProcessingMode
ComputeCreds(r) ==
  /\ BagIn(r, runs) /\ r.kind = "compute" /\ r.stage = "creds"
  /\ auditOutcome' = NoOutcome
  /\ note' = NoNote
  /\ UNCHANGED <<chatState, pureVars>>
  /\ IF EnsureCredentials(storedToken, storedUser)
     THEN /\ runs' = Replace(runs, r, [r EXCEPT !.stage = "mode"])
          /\ UNCHANGED errorPopup
     ELSE /\ errorPopup' = ShowErrorPopup(errorPopup, "creds")
          /\ runs' = runs (-) One(r)
  /\ UNCHANGED <<credVars, processingMode, body, leaked, spinner, popups>>

\* runComputeAi after getStoredProcessingMode: the directives are extracted (n of them),
\* none -> notice; otherwise the spinner is shown and the first request dispatched
ComputeMode(r, n) ==
  /\ BagIn(r, runs) /\ r.kind = "compute" /\ r.stage = "mode"
  /\ auditOutcome' = NoOutcome
  /\ note' = NoNote
  /\ UNCHANGED <<chatState, pureVars>>
  /\ IF n = 0
     THEN /\ errorPopup' = ShowErrorPopup(errorPopup, "nodirectives")
          /\ runs' = runs (-) One(r)
          /\ UNCHANGED spinner
     ELSE /\ runs' = Replace(runs, r,
                       [r EXCEPT !.kind = IF processingMode = "v2" THEN "batch" ELSE "anchor",
                                 !.stage = "req", !.n = n, !.sent = <<1>>])
          /\ spinner' = ShowLoadingSpinner(spinner)
          /\ UNCHANGED errorPopup
  /\ UNCHANGED <<credVars, processingMode, body, leaked, popups>>

\* buildModalElement(results): the carousel is built and rendered at index 0, then the
\* existing #mathematica-modal-overlay is removed; the caller appends the new overlay
BuildModalElement(bd, items) ==
  Append(RemoveExisting(bd, "result"), RenderResultItem(NewModal("result", items), 0))

\* runComputeAiV2: the reply to the request in flight; null -> error text item; after the
\* last reply the carousel is built and the spinner hidden (finally)
BatchReply(r, answered) ==
  /\ BagIn(r, runs) /\ r.kind = "batch" /\ r.stage = "req"
  /\ auditOutcome' = NoOutcome
  /\ note' = NoNote
  /\ UNCHANGED <<chatState, pureVars>>
  /\ LET results == Append(r.results, IF answered THEN "answer" ELSE "error")
     IN IF Len(results) < r.n
        THEN /\ runs' = Replace(runs, r, [r EXCEPT !.results = results,
                                                    !.sent = Dispatch(@, answered)])
             /\ UNCHANGED <<body, leaked, spinner>>
        ELSE /\ ModalCount(body, leaked, runs) < MaxModals
             /\ runs' = runs (-) One(r)
             /\ body' = BuildModalElement(body, results)
             /\ leaked' = LeakExisting(leaked, body, "result")
             /\ spinner' = HideLoadingSpinner(spinner)
  /\ UNCHANGED <<credVars, processingMode, errorPopup, popups>>

\* runComputeAi (per-anchor): the reply to the request in flight; an answer opens a popup
\* at the directive's anchor, null shows the error notice; finally hides the spinner
AnchorReply(r, answered) ==
  /\ BagIn(r, runs) /\ r.kind = "anchor" /\ r.stage = "req"
  /\ answered => popups < MaxPopups
  /\ auditOutcome' = NoOutcome
  /\ note' = NoNote
  /\ UNCHANGED <<chatState, pureVars>>
  /\ popups' = IF answered THEN popups + 1 ELSE popups
  /\ errorPopup' = IF answered THEN errorPopup ELSE ShowErrorPopup(errorPopup, "aifail")
  /\ LET results == Append(r.results, IF answered THEN "answer" ELSE "error")
     IN IF Len(results) < r.n
        THEN /\ runs' = Replace(runs, r, [r EXCEPT !.results = results,
                                                    !.sent = Dispatch(@, answered)])
             /\ UNCHANGED spinner
        ELSE /\ runs' = runs (-) One(r)
             /\ spinner' = HideLoadingSpinner(spinner)
  /\ UNCHANGED <<credVars, processingMode, body, leaked>>

\* ------------------------------------------------------------------ audit
\* runNotebookAuditV2 after ensureCredentials: empty notebook -> notice; otherwise the
\* spinner is shown and the single request dispatched
AuditCreds(r, emptyNotebook) ==
  /\ BagIn(r, runs) /\ r.kind = "audit" /\ r.stage = "creds"
  /\ auditOutcome' = NoOutcome
  /\ note' = NoNote
  /\ UNCHANGED <<chatState, pureVars>>
  /\ IF ~EnsureCredentials(storedToken, storedUser)
     THEN /\ errorPopup' = ShowErrorPopup(errorPopup, "creds")
          /\ runs' = runs (-) One(r)
          /\ UNCHANGED spinner
     ELSE IF emptyNotebook
     THEN /\ errorPopup' = ShowErrorPopup(errorPopup, "emptynotebook")
          /\ runs' = runs (-) One(r)
          /\ UNCHANGED spinner
     ELSE /\ runs' = Replace(runs, r, [r EXCEPT !.stage = "req", !.sent = <<1>>])
          /\ spinner' = ShowLoadingSpinner(spinner)
          /\ UNCHANGED errorPopup
  /\ UNCHANGED <<credVars, processingMode, body, leaked, popups>>

\* createAuditModal(title, body) followed by document.body.appendChild(overlay)
CreateAuditModal(bd, title) == Append(bd, NewModal("notice", <<title>>))

\* buildAuditModalCarousel(items) followed by document.body.appendChild(overlay): the
\* listeners are attached, then renderItem(0) runs; only when it returns is the existing
\* carousel removed and the new overlay returned
BuildAuditModalCarousel(bd, items) ==
  IF BuildAuditBodyThrows(items[1])
  THEN bd
  ELSE Append(RemoveExisting(bd, "audit"), RenderAuditItem(NewModal("audit", items), 0))

LeakAuditModalCarousel(lk, bd, items) ==
  IF BuildAuditBodyThrows(items[1])
  THEN lk (+) One(Leaked("audit", FALSE))
  ELSE LeakExisting(lk, bd, "audit")

\* which presentation runNotebookAuditV2 ends in for a non-null answer
AuditPresentation(ans) ==
  LET parsed == ParseJson(ans)
  IN IF ~parsed.truthy \/ ~parsed.isArray THEN "format"
     ELSE IF Len(parsed.errors) = 0 THEN "nofindings"
     ELSE IF BuildAuditBodyThrows(parsed.errors[1]) THEN "raised"
     ELSE "carousel"

\* runNotebookAuditV2: the reply; null -> error notice
AuditReplyNull(r) ==
  /\ BagIn(r, runs) /\ r.kind = "audit" /\ r.stage = "req"
  /\ errorPopup' = ShowErrorPopup(errorPopup, "aifail")
  /\ spinner' = HideLoadingSpinner(spinner)
  /\ runs' = runs (-) One(r)
  /\ auditOutcome' = NoOutcome
  /\ note' = NoNote
  /\ UNCHANGED <<chatState, pureVars>>
  /\ UNCHANGED <<credVars, processingMode, body, leaked, popups>>

\* runNotebookAuditV2: the reply with an answer string
AuditReply(r, ans) ==
  /\ BagIn(r, runs) /\ r.kind = "audit" /\ r.stage = "req"
  /\ ModalCount(body, leaked, runs) < MaxModals
  /\ LET pres == AuditPresentation(ans)
         parsed == ParseJson(ans)
     IN /\ auditOutcome' = [answer |-> ans, pres |-> pres]
        /\ note' = NoNote
        /\ UNCHANGED <<chatState, pureVars>>
        /\ IF pres \in {"format", "nofindings"}
           THEN /\ body' = CreateAuditModal(body, pres)
                /\ UNCHANGED leaked
           ELSE /\ body' = BuildAuditModalCarousel(body, parsed.errors)
                /\ leaked' = LeakAuditModalCarousel(leaked, body, parsed.errors)
  /\ runs' = runs (-) One(r)
  /\ spinner' = HideLoadingSpinner(spinner)
  /\ UNCHANGED <<credVars, processingMode, errorPopup, popups>>

\* ------------------------------------------------------------------ Ask modal
\* runAskAiModal after ensureCredentials: the existing Ask overlay is removed, the new
\* modal is created (listeners attached); next await is getStoredAiModel
AskCreds(r) ==
  /\ BagIn(r, runs) /\ r.kind = "ask" /\ r.stage = "creds"
  /\ auditOutcome' = NoOutcome
  /\ note' = NoNote
  /\ UNCHANGED <<chatState, pureVars>>
  /\ IF ~EnsureCredentials(storedToken, storedUser)
     THEN /\ errorPopup' = ShowErrorPopup(errorPopup, "creds")
          /\ runs' = runs (-) One(r)
          /\ UNCHANGED <<body, leaked>>
     ELSE /\ ModalCount(body, leaked, runs) < MaxModals
          /\ runs' = Replace(runs, r, [r EXCEPT !.stage = "model", !.modal = "armed"])
          /\ body' = RemoveExisting(body, "ask")
          /\ leaked' = LeakExisting(leaked, body, "ask")
          /\ UNCHANGED errorPopup
  /\ UNCHANGED <<credVars, processingMode, spinner, popups>>

\* runAskAiModal after getStoredAiModel: document.body.appendChild(overlay)
AskModel(r) ==
  /\ BagIn(r, runs) /\ r.kind = "ask" /\ r.stage = "model"
  /\ auditOutcome' = NoOutcome
  /\ note' = NoNote
  /\ UNCHANGED <<chatState, pureVars>>
  /\ runs' = runs (-) One(r)
  /\ body' = Append(body, [NewModal("ask", <<>>) EXCEPT !.listeners = (r.modal = "armed")])
  /\ UNCHANGED <<credVars, processingMode, leaked, spinner, errorPopup, popups>>

\* ------------------------------------------------------------------ user events
\* closeModal of the modals out of the tree whose listeners fire: the listeners of a
\* leaked modal are detached, and so are those of a modal an ask run still holds
Disarm(rs) ==
  LET RECURSIVE Go(_, _)
      Go(T, acc) ==
        IF T = {} THEN acc
        ELSE LET x == CHOOSE y \in T : TRUE
                 q == [x EXCEPT !.modal = IF x.modal = "armed" THEN "disarmed" ELSE x.modal]
                 RECURSIVE Put(_, _)
                 Put(k, b) == IF k = 0 THEN b ELSE Put(k - 1, b (+) One(q))
             IN Go(T \ {x}, Put(CopiesIn(x, rs), acc))
  IN Go(BagToSet(rs), EmptyBag)

\* the close button of a modal in the view: closeModal
CloseButton(i) ==
  /\ i \in 1..Len(body)
  /\ body' = RemoveAt(body, i)
  /\ auditOutcome' = NoOutcome
  /\ note' = NoNote
  /\ UNCHANGED <<chatState, pureVars>>
  /\ UNCHANGED <<credVars, processingMode, leaked, runs, spinner, errorPopup, popups>>

\* Escape: every registered keydown listener runs its close (attachEscapeClose);
\* the answer popups register one each as well
EscapeClose(bd) == SelectSeq(bd, LAMBDA m : ~m.listeners)

Escape ==
  /\ \/ popups > 0
     \/ leaked # EmptyBag
     \/ \E i \in 1..Len(body) : body[i].listeners
     \/ \E r \in BagToSet(runs) : r.modal = "armed"
  /\ body' = EscapeClose(body)
  /\ leaked' = EmptyBag
  /\ runs' = Disarm(runs)
  /\ popups' = 0
  /\ auditOutcome' = NoOutcome
  /\ note' = NoNote
  /\ UNCHANGED <<chatState, pureVars>>
  /\ UNCHANGED <<credVars, processingMode, spinner, errorPopup>>

\* mousedown with its target inside the modal box at position target of body (0:
\* elsewhere in the page): every registered handleOutsideClick whose modal does not
\* contain the target closes its modal
OutsideClose(bd, target) ==
  LET keep == {i \in 1..Len(bd) : i = target \/ ~bd[i].listeners}
      RECURSIVE Go(_)
      Go(i) == IF i > Len(bd) THEN <<>>
               ELSE (IF i \in keep THEN <<bd[i]>> ELSE <<>>) \o Go(i + 1)
  IN Go(1)

MouseDown(target) ==
  /\ target \in 0..Len(body)
  /\ \/ leaked # EmptyBag
     \/ \E i \in 1..Len(body) : body[i].listeners /\ i # target
     \/ \E r \in BagToSet(runs) : r.modal = "armed"
  /\ body' = OutsideClose(body, target)
  /\ leaked' = EmptyBag
  /\ runs' = Disarm(runs)
  /\ auditOutcome' = NoOutcome
  /\ note' = NoNote
  /\ UNCHANGED <<chatState, pureVars>>
  /\ UNCHANGED <<credVars, processingMode, spinner, errorPopup, popups>>

\* a click event on prevBtn / nextBtn of a carousel in the view: the user's click
\* reaches the listener only when the button is enabled, a dispatched click always
PrevClick(i, dispatched) ==
  /\ i \in 1..Len(body) /\ body[i].kind \in {"result", "audit"}
  /\ dispatched \/ ~body[i].prevDis
  /\ body' = [body EXCEPT ![i] = PrevHandler(@)]
  /\ auditOutcome' = NoOutcome
  /\ note' = NoNote
  /\ UNCHANGED <<chatState, pureVars>>
  /\ UNCHANGED <<credVars, processingMode, leaked, runs, spinner, errorPopup, popups>>

NextClick(i, dispatched) ==
  /\ i \in 1..Len(body) /\ body[i].kind \in {"result", "audit"}
  /\ dispatched \/ ~body[i].nextDis
  /\ body' = [body EXCEPT ![i] = NextHandler(@)]
  /\ auditOutcome' = NoOutcome
  /\ note' = NoNote
  /\ UNCHANGED <<chatState, pureVars>>
  /\ UNCHANGED <<credVars, processingMode, leaked, runs, spinner, errorPopup, popups>>

\* showErrorPopup's timers remove the notice after 5.5 s
ErrorPopupExpire ==
  /\ errorPopup # ""
  /\ errorPopup' = ""
  /\ auditOutcome' = NoOutcome
  /\ note' = NoNote
  /\ UNCHANGED <<chatState, pureVars>>
  /\ UNCHANGED <<credVars, processingMode, body, leaked, runs, spinner, popups>>

\* the close button of an answer popup
ClosePopup ==
  /\ popups > 0
  /\ popups' = popups - 1
  /\ auditOutcome' = NoOutcome
  /\ note' = NoNote
  /\ UNCHANGED <<chatState, pureVars>>
  /\ UNCHANGED <<credVars, processingMode, body, leaked, runs, spinner, errorPopup>>

\* ------------------------------------------------------------------ chat panel
PanelCount == Len(panels) + BagCardinality(detached) + BagCardinality(opening)

Opening(stage, room) == [stage |-> stage, room |-> room]

\* content.ts: the runContentAction listener, action 'chat': runChatModal up to its
\* await of ensureCredentials
RunChatModal ==
  /\ PanelCount < MaxPanels
  /\ BagCardinality(opening) < MaxOpening
  /\ opening' = opening (+) One(Opening("creds", ""))
  /\ note' = NoNote
  /\ auditOutcome' = NoOutcome
  /\ UNCHANGED <<pureVars, credVars, modalRest, errorPopup, storedRoom, panels, detached>>

\* runChatModal after ensureCredentials: the overlay in the tree is removed, nothing
\* else of its panel is touched; next await is getStoredChatRoomId
ChatCreds(o) ==
  /\ BagIn(o, opening) /\ o.stage = "creds"
  /\ note' = NoNote
  /\ auditOutcome' = NoOutcome
  /\ IF EnsureCredentials(storedToken, storedUser)
     THEN /\ opening' = (opening (-) One(o)) (+) One(Opening("room", ""))
          /\ panels' = IF panels = <<>> THEN panels ELSE Tail(panels)
          /\ detached' = IF panels = <<>> THEN detached
                         ELSE AddAll(detached, <<Replaced(panels[1])>>, 1)
          /\ UNCHANGED errorPopup
     ELSE /\ opening' = opening (-) One(o)
          /\ errorPopup' = ShowErrorPopup(errorPopup, "creds")
          /\ UNCHANGED <<panels, detached>>
  /\ UNCHANGED <<pureVars, credVars, modalRest, storedRoom>>

\* runChatModal: currentRoomId read; next await is getStoredChatUsername
ChatRoomRead(o) ==
  /\ BagIn(o, opening) /\ o.stage = "room"
  /\ opening' = (opening (-) One(o)) (+) One(Opening("user", storedRoom))
  /\ note' = NoNote
  /\ auditOutcome' = NoOutcome
  /\ UNCHANGED <<pureVars, credVars, modalRest, errorPopup, storedRoom, panels, detached>>

\* runChatModal: currentUsername read, the panel built and appended; with a room and
\* an identity the initial loadMessages(true) is started
ChatUserRead(o) ==
  /\ BagIn(o, opening) /\ o.stage = "user"
  /\ opening' = opening (-) One(o)
  /\ LET p == NewPanel(o.room, storedUser)
     IN panels' = Append(panels,
                         IF o.room # "" /\ storedUser # ""
                         THEN StartLoad(p, TRUE, FALSE, "init")
                         ELSE [p EXCEPT !.view = ViewOf(o.room)])
  /\ note' = NoNote
  /\ auditOutcome' = NoOutcome
  /\ UNCHANGED <<pureVars, credVars, modalRest, errorPopup, storedRoom, detached>>

\* the interval callback of startPolling: loadMessages(false)
PollTick(i) ==
  /\ i \in 1..Len(panels) /\ panels[i].polling
  /\ IF CanLoad(panels[i])
     THEN /\ panels' = [panels EXCEPT ![i] = StartLoad(@, FALSE, FALSE, "poll")]
          /\ note' = NoNote
     ELSE /\ UNCHANGED panels
          /\ note' = NoNote
  /\ auditOutcome' = NoOutcome
  /\ UNCHANGED <<pureVars, credVars, modalRest, errorPopup, storedRoom, detached, opening>>

\* loadMessages from the reply of oneChatGet to its end, and what its caller does next
FetchReply(i, resp) ==
  /\ i \in 1..Len(panels) /\ panels[i].load.awaiting
  /\ LET p == panels[i]
         messages == OneChatGet(resp)
         signature == Signature(messages, p.room)
         render == ShouldRender(p.load.force, signature, p.lastSig)
         p1 == IF render
               THEN [p EXCEPT !.lastSig = signature,
                              !.shown = [blank |-> FALSE, msgs |-> messages]]
               ELSE p
         p2 == [p1 EXCEPT !.prevPoll = IF p.load.owner = "poll"
                                       THEN [has |-> TRUE, msgs |-> messages]
                                       ELSE NoPoll]
     IN /\ panels' = [panels EXCEPT ![i] = FinishLoad(p2)]
        /\ note' = [Note("reply", p.load.owner) EXCEPT
                      !.same = p.prevPoll.has /\ p.prevPoll.msgs = messages,
                      !.rendered = render,
                      !.room = p.room]
  /\ auditOutcome' = NoOutcome
  /\ UNCHANGED <<pureVars, credVars, modalRest, errorPopup, storedRoom, detached, opening>>

\* applyRoom (join button, Enter in the room input, landing card, room link of a
\* message) with value = roomInput.value.trim(), up to its first await
ApplyRoom(i, value) ==
  /\ i \in 1..Len(panels)
  /\ value \in {"", panels[i].room} \/ BagCardinality(panels[i].tasks) < MaxTasks
  /\ LET p == panels[i]
         again == [p EXCEPT !.lastSig = "", !.prevPoll = NoPoll]
     IN IF value = ""
        THEN /\ note' = NoNote
             /\ UNCHANGED <<panels, storedRoom>>
        ELSE IF value = p.room
        THEN /\ IF CanLoad(again)
                THEN /\ panels' = [panels EXCEPT ![i] = StartLoad(again, TRUE, TRUE, "rejoin")]
                     /\ note' = NoNote
                ELSE /\ panels' = [panels EXCEPT ![i] = AfterLoad(again, "rejoin")]
                     /\ note' = Note("skipped", "rejoin")
             /\ UNCHANGED storedRoom
        ELSE /\ panels' = [panels EXCEPT ![i] =
                             [p EXCEPT !.room = value,
                                       !.prevPoll = NoPoll,
                                       !.tasks = @ (+) One(Task("join", NoReq))]]
             /\ storedRoom' = value
             /\ note' = NoNote
  /\ auditOutcome' = NoOutcome
  /\ UNCHANGED <<pureVars, credVars, modalRest, errorPopup, detached, opening>>

\* applyRoom after setStoredChatRoomId: loadMessages(true), then startPolling and
\* updateView once it has returned
JoinStored(i, t) ==
  /\ i \in 1..Len(panels) /\ BagIn(t, panels[i].tasks) /\ t.kind = "join"
  /\ LET p == [panels[i] EXCEPT !.tasks = @ (-) One(t), !.lastSig = "",
                                !.prevPoll = NoPoll]
     IN IF CanLoad(p)
        THEN /\ panels' = [panels EXCEPT ![i] = StartLoad(p, TRUE, FALSE, "join")]
             /\ note' = NoNote
        ELSE /\ panels' = [panels EXCEPT ![i] = AfterLoad(p, "join")]
             /\ note' = Note("skipped", "join")
  /\ auditOutcome' = NoOutcome
  /\ UNCHANGED <<pureVars, credVars, modalRest, errorPopup, storedRoom, detached, opening>>

\* updateView: leaveRoomBtn.disabled = !hasRoom
LeaveDisabled(p) == p.view = "landing"

\* the leaveRoomBtn click listener up to its await of setStoredChatRoomId('')
LeaveClick(i, dispatched) ==
  /\ i \in 1..Len(panels)
  /\ dispatched \/ ~LeaveDisabled(panels[i])
  /\ BagCardinality(panels[i].tasks) < MaxTasks
  /\ panels' = [panels EXCEPT ![i] =
                  [StopPolling(@) EXCEPT !.room = "",
                                         !.tasks = @ (+) One(Task("leave", NoReq))]]
  /\ storedRoom' = ""
  /\ note' = NoNote
  /\ auditOutcome' = NoOutcome
  /\ UNCHANGED <<pureVars, credVars, modalRest, errorPopup, detached, opening>>

\* the leaveRoomBtn click listener after the await: the list is cleared, updateView
LeaveStored(i, t) ==
  /\ i \in 1..Len(panels) /\ BagIn(t, panels[i].tasks) /\ t.kind = "leave"
  /\ panels' = [panels EXCEPT ![i] =
                  [@ EXCEPT !.tasks = @ (-) One(t), !.shown = Blank,
                            !.view = ViewOf(panels[i].room)]]
  /\ note' = NoNote
  /\ auditOutcome' = NoOutcome
  /\ UNCHANGED <<pureVars, credVars, modalRest, errorPopup, storedRoom, detached, opening>>

\* setStatus of a rejected send or attach
Rejected(guard, owner, user) ==
  IF guard \in {"needRoom", "needUser"} THEN [Note(guard, owner) EXCEPT !.user = user]
  ELSE NoNote

Attempt(p, content) == [roomId |-> p.room, username |-> p.user, content |-> content]

\* the sendBtn click listener up to its await of oneChatSend
SendClick(i, dispatched, emptyMsg) ==
  /\ i \in 1..Len(panels)
  /\ dispatched \/ ~panels[i].sendDis
  /\ LET p == panels[i]
         guard == SendGuard(p, emptyMsg)
         req == Attempt(p, IF emptyMsg THEN "" ELSE "msg")
     IN /\ guard # "" \/ BagCardinality(p.tasks) < MaxTasks
        /\ IF guard # ""
           THEN /\ note' = Rejected(guard, "send", p.user)
                /\ UNCHANGED panels
           ELSE /\ note' = [Note("sending", "send") EXCEPT !.user = p.user]
                /\ panels' = [panels EXCEPT ![i] =
                                [p EXCEPT !.sendDis = TRUE,
                                          !.tasks = @ (+) One(Task("send", req))]]
  /\ auditOutcome' = NoOutcome
  /\ UNCHANGED <<pureVars, credVars, modalRest, errorPopup, storedRoom, detached, opening>>

\* what a click listener does with the result of oneChatSend: a failure notice, or
\* loadMessages(true)
AfterSend(p, ok, owner, req, http) ==
  LET done(what) == [Note(what, owner) EXCEPT !.user = req.username, !.http = http]
  IN IF ~ok THEN [panel |-> p, note |-> done("relayed")]
     ELSE IF CanLoad(p)
     THEN [panel |-> StartLoad(p, TRUE, FALSE, owner), note |-> done("relayed")]
     ELSE [panel |-> p, note |-> done("skipped")]

\* the sendBtn click listener from the reply of the relay
SendReply(i, t, channelOk, httpOk) ==
  /\ i \in 1..Len(panels) /\ BagIn(t, panels[i].tasks) /\ t.kind = "send"
  /\ LET p == [panels[i] EXCEPT !.tasks = @ (-) One(t), !.sendDis = FALSE]
         after == AfterSend(p, OneChatSend(t.req, channelOk, httpOk), "send", t.req,
                            channelOk /\ HandleOneChatSend(t.req, httpOk).http)
     IN /\ panels' = [panels EXCEPT ![i] = after.panel]
        /\ note' = after.note
  /\ auditOutcome' = NoOutcome
  /\ UNCHANGED <<pureVars, credVars, modalRest, errorPopup, storedRoom, detached, opening>>

\* the attachBtn click listener up to its await of oneChatSend
AttachClick(i, dispatched, hasNotebook) ==
  /\ i \in 1..Len(panels)
  /\ dispatched \/ ~panels[i].attachDis
  /\ LET p == panels[i]
         guard == AttachGuard(p, hasNotebook)
         req == Attempt(p, IF hasNotebook THEN "notebook" ELSE "")
     IN /\ guard # "" \/ BagCardinality(p.tasks) < MaxTasks
        /\ IF guard # ""
           THEN /\ note' = Rejected(guard, "attach", p.user)
                /\ UNCHANGED panels
           ELSE /\ note' = [Note("sending", "attach") EXCEPT !.user = p.user]
                /\ panels' = [panels EXCEPT ![i] =
                                [p EXCEPT !.attachDis = TRUE,
                                          !.tasks = @ (+) One(Task("attach", req))]]
        /\ errorPopup' = IF guard = "noNotebook"
                         THEN ShowErrorPopup(errorPopup, "notebook")
                         ELSE errorPopup
  /\ auditOutcome' = NoOutcome
  /\ UNCHANGED <<pureVars, credVars, modalRest, storedRoom, detached, opening>>

\* the attachBtn click listener from the reply of the relay
AttachReply(i, t, channelOk, httpOk) ==
  /\ i \in 1..Len(panels) /\ BagIn(t, panels[i].tasks) /\ t.kind = "attach"
  /\ LET p == [panels[i] EXCEPT !.tasks = @ (-) One(t), !.attachDis = FALSE]
         after == AfterSend(p, OneChatSend(t.req, channelOk, httpOk), "attach", t.req,
                            channelOk /\ HandleOneChatSend(t.req, httpOk).http)
     IN /\ panels' = [panels EXCEPT ![i] = after.panel]
        /\ note' = after.note
  /\ auditOutcome' = NoOutcome
  /\ UNCHANGED <<pureVars, credVars, modalRest, errorPopup, storedRoom, detached, opening>>

\* the onechatSend requests the relay can be handed
RelayRequests == [roomId : {"", "A"}, username : {"", "me"}, content : {"", "msg"}]

\* the close button of the chat panel: close()
ChatClose(i) ==
  /\ i \in 1..Len(panels)
  /\ panels' = RemoveAt(panels, i)
  /\ detached' = AddAll(detached, <<Closed(panels[i])>>, 1)
  /\ note' = NoNote
  /\ auditOutcome' = NoOutcome
  /\ UNCHANGED <<pureVars, credVars, modalRest, errorPopup, storedRoom, opening>>

\* Escape: the keydown listener of every chat panel that still has it runs close()
ChatEscape ==
  /\ panels # <<>> \/ \E z \in BagToSet(detached) : z.listeners
  /\ panels' = <<>>
  /\ detached' = AddAll(CloseAllDetached(detached),
                        [k \in 1..Len(panels) |-> Closed(panels[k])], 1)
  /\ note' = NoNote
  /\ auditOutcome' = NoOutcome
  /\ UNCHANGED <<pureVars, credVars, modalRest, errorPopup, storedRoom, opening>>

\* mousedown with its target inside the panel at position target (0: elsewhere): the
\* handleOutsideClick of every other chat panel that still has it runs close()
ChatMouseDown(target) ==
  /\ target \in 0..Len(panels)
  /\ \/ \E i \in 1..Len(panels) : i # target
     \/ \E z \in BagToSet(detached) : z.listeners
  /\ panels' = IF target = 0 THEN <<>> ELSE <<panels[target]>>
  /\ detached' = AddAll(CloseAllDetached(detached),
                        [k \in 1..Len(panels) |->
                           IF k = target THEN Detached(TRUE, FALSE, FALSE, FALSE)
                           ELSE Closed(panels[k])], 1)
  /\ note' = NoNote
  /\ auditOutcome' = NoOutcome
  /\ UNCHANGED <<pureVars, credVars, modalRest, errorPopup, storedRoom, opening>>

\* a panel out of the tree: its awaiting applyRoom or runChatModal resumes and calls
\* startPolling()
DetachedStart(z) ==
  /\ BagIn(z, detached) /\ z.starts
  /\ detached' = (detached (-) One(z)) (+) One([z EXCEPT !.polling = TRUE, !.starts = FALSE])
  /\ note' = NoNote
  /\ auditOutcome' = NoOutcome
  /\ UNCHANGED <<pureVars, credVars, modalRest, errorPopup, storedRoom, panels, opening>>

vars == <<credVars, modalVars, chatVars, pureVars>>

\* The carousels, notices and the Ask modal with the runs that open them, under stored
\* credentials and the batch processing mode.
CarouselNext ==
  \/ \E a \in {"compute", "audit", "ask"} : RunContentAction(a)
  \/ \E r \in BagToSet(runs) : ComputeCreds(r)
  \/ \E r \in BagToSet(runs), n \in 0..MaxItems : ComputeMode(r, n)
  \/ \E r \in BagToSet(runs), b \in BOOLEAN : BatchReply(r, b)
  \/ \E r \in BagToSet(runs), b \in BOOLEAN : AuditCreds(r, b)
  \/ \E r \in BagToSet(runs) : AuditReplyNull(r)
  \/ \E r \in BagToSet(runs), ans \in AuditAnswers : AuditReply(r, ans)
  \/ \E r \in BagToSet(runs) : AskCreds(r)
  \/ \E r \in BagToSet(runs) : AskModel(r)
  \/ \E i \in 1..MaxModals : CloseButton(i)
  \/ Escape
  \/ \E t \in 0..MaxModals : MouseDown(t)
  \/ \E i \in 1..MaxModals, d \in BOOLEAN : PrevClick(i, d)
  \/ \E i \in 1..MaxModals, d \in BOOLEAN : NextClick(i, d)
  \/ ErrorPopupExpire

CarouselSpec == Init /\ [][CarouselNext]_vars

\* The runs that show the loading indicator (per-anchor, batch, audit) in both
\* processing modes.  A run is started only when the view has room for what it opens.
RunStart(action) ==
  /\ Len(body) + BagCardinality(leaked) + BagCardinality(runs) < MaxModals
  /\ RunContentAction(action)

\* the reply to a request in flight arrives
Replies ==
  \E r \in BagToSet(runs) :
    \/ \E b \in BOOLEAN : BatchReply(r, b)
    \/ \E b \in BOOLEAN : AnchorReply(r, b)
    \/ AuditReplyNull(r)
    \/ \E ans \in AuditAnswers : AuditReply(r, ans)

RunNext ==
  \/ \E m \in {"v1", "v2"} : SetProcessingMode(m)
  \/ \E a \in {"compute", "audit"} : RunStart(a)
  \/ \E r \in BagToSet(runs) : ComputeCreds(r)
  \/ \E r \in BagToSet(runs), n \in 0..MaxItems : ComputeMode(r, n)
  \/ \E r \in BagToSet(runs), b \in BOOLEAN : BatchReply(r, b)
  \/ \E r \in BagToSet(runs), b \in BOOLEAN : AnchorReply(r, b)
  \/ \E r \in BagToSet(runs), b \in BOOLEAN : AuditCreds(r, b)
  \/ \E r \in BagToSet(runs) : AuditReplyNull(r)
  \/ \E r \in BagToSet(runs), ans \in AuditAnswers : AuditReply(r, ans)
  \/ \E i \in 1..MaxModals : CloseButton(i)
  \/ Escape
  \/ ClosePopup
  \/ ErrorPopupExpire

RunSpec == Init /\ [][RunNext]_vars

\* every request gets its reply
FairRunSpec == RunSpec /\ WF_vars(Replies)

\* ------------------------------------------------------------------ extraction
\* The two extraction functions applied to the notebook texts of Docs.
ExtractInit ==
  /\ ProgramInit
  /\ notebookText \in Docs
  /\ directives = NoDirectives
  /\ fetch = NoFetch
  /\ latex = NoRender
  /\ validation = NoValidation
  /\ scroll = NoScroll
  /\ UnitInit

\* runComputeAiV2: getAllDirectivesFromNotebookCells([notebookText])
ExtractFromCells ==
  /\ directives' = [how |-> "cells", spans |-> NoSpans,
                    list |-> GetAllDirectivesFromNotebookCells(<<notebookText>>)]
  /\ UNCHANGED <<credVars, modalVars, chatVars, notebookText, fetch, latex, validation, scroll, unitVars>>

\* runComputeAi: getAllMathPlusDirectives() in a page whose notebook has these spans
ExtractFromAnchors(spans) ==
  /\ directives' = [how |-> "anchors", spans |-> spans,
                    list |-> GetAllMathPlusDirectives(TRUE, notebookText, spans)]
  /\ UNCHANGED <<credVars, modalVars, chatVars, notebookText, fetch, latex, validation, scroll, unitVars>>

\* getAllMathPlusDirectives() in a page without a notebook, which has no cell text
ExtractNoNotebook ==
  /\ notebookText = <<>>
  /\ directives' = [how |-> "anchors", spans |-> NoSpans,
                    list |-> GetAllMathPlusDirectives(FALSE, notebookText, NoSpans)]
  /\ UNCHANGED <<credVars, modalVars, chatVars, notebookText, fetch, latex, validation, scroll, unitVars>>

ExtractNext ==
  \/ ExtractFromCells
  \/ \E spans \in SpanCounts : ExtractFromAnchors(spans)
  \/ ExtractNoNotebook

ExtractSpec == ExtractInit /\ [][ExtractNext]_vars

\* ------------------------------------------------------------------ rendering
\* renderLatex applied to the texts of Texts
RenderInit ==
  /\ ProgramInit
  /\ notebookText = <<>>
  /\ directives = NoDirectives
  /\ fetch = NoFetch
  /\ validation = NoValidation
  /\ scroll = NoScroll
  /\ UnitInit
  /\ latex \in {[NoRender EXCEPT !.stage = "input", !.text = t] : t \in Texts}

\* renderLatex: the while loop that cuts the math spans out of the text
ScanText ==
  /\ latex.stage = "input"
  /\ LET s == Scan(latex.text, 1, <<>>, <<>>)
     IN latex' = [latex EXCEPT !.stage = "scanned", !.tokens = s.tokens,
                               !.result = s.result]
  /\ UNCHANGED <<credVars, modalVars, chatVars, notebookText, directives, fetch, validation, scroll, unitVars>>

\* renderLatex: renderMarkdown and the loop that puts the rendered spans back
RenderSpans(throwing) ==
  /\ latex.stage = "scanned"
  /\ throwing \subseteq 1..Len(latex.tokens)
  /\ LET r == Substitute(RenderMarkdown(latex.result), latex.tokens, 1, throwing)
     IN latex' = [latex EXCEPT !.stage = "done", !.throwing = throwing,
                               !.out = r.out, !.raised = r.raised]
  /\ UNCHANGED <<credVars, modalVars, chatVars, notebookText, directives, fetch, validation, scroll, unitVars>>

RenderNext ==
  \/ ScanText
  \/ \E throwing \in SUBSET (1..MaxMath) : RenderSpans(throwing)

RenderSpec == RenderInit /\ [][RenderNext]_vars

\* ------------------------------------------------------------------ credentials
\* The four actions of the content script under credentials that are set and cleared
\* in the extension's popup while the page is open.
CredNext ==
  \/ \E t \in Tokens, u \in Users : SetCredentials(t, u)
  \/ \E a \in {"compute", "audit", "ask"} : RunContentAction(a)
  \/ RunChatModal
  \/ \E r \in BagToSet(runs) : ComputeCreds(r)
  \/ \E r \in BagToSet(runs) : ComputeMode(r, 0)
  \/ \E r \in BagToSet(runs), b \in BOOLEAN : AuditCreds(r, b)
  \/ \E r \in BagToSet(runs) : AuditReplyNull(r)
  \/ \E r \in BagToSet(runs) : AskCreds(r)
  \/ \E r \in BagToSet(runs) : AskModel(r)
  \/ \E i \in 1..MaxModals : CloseButton(i)
  \/ \E o \in BagToSet(opening) : ChatCreds(o)
  \/ \E o \in BagToSet(opening) : ChatRoomRead(o)
  \/ \E o \in BagToSet(opening) : ChatUserRead(o)
  \/ \E i \in 1..MaxPanels : ChatClose(i)
  \/ ErrorPopupExpire

CredSpec == Init /\ [][CredNext]_vars

\* ------------------------------------------------------------------ popup: save
\* the click listener of the save button up to its await, with the values of the inputs
SaveClick(token, user) ==
  /\ ~validation.disabled
  /\ validation.relay \in {"none", "done"}
  /\ validation' =
       IF token = "" THEN [NoValidation EXCEPT !.status = "enter token"]
       ELSE IF user = "" THEN [NoValidation EXCEPT !.status = "enter username"]
       ELSE [NoValidation EXCEPT !.stage = "waiting", !.token = token, !.user = user,
                                 !.timer = TRUE, !.relay = "sent", !.disabled = TRUE]
  /\ UNCHANGED <<credVars, modalVars, chatVars, notebookText, directives, fetch, latex, scroll, unitVars>>

\* setTimeout(() => resolve(false), 8000) fires
ValidationTimeout ==
  /\ validation.timer
  /\ validation' = [Settle(validation, FALSE) EXCEPT !.timer = FALSE, !.timedOut = TRUE]
  /\ UNCHANGED <<credVars, modalVars, chatVars, notebookText, directives, fetch, latex, scroll, unitVars>>

\* handleValidateAccessToken up to its await of validateAccessToken
HandleValidateAccessToken ==
  /\ validation.relay = "sent"
  /\ validation' = [validation EXCEPT !.relay = "http"]
  /\ UNCHANGED <<credVars, modalVars, chatVars, notebookText, directives, fetch, latex, scroll, unitVars>>

\* validateAccessToken returns or throws, and handleValidateAccessToken stores the
\* token and sends its response
ValidateAccessToken(ok, throws) ==
  /\ validation.relay = "http"
  /\ LET valid == ok /\ ~throws
     IN /\ storedToken' = IF valid THEN validation.token ELSE storedToken
        /\ validation' = [validation EXCEPT !.relay = "responded",
                            !.response = IF valid THEN "success" ELSE "invalid_token"]
  /\ UNCHANGED <<storedUser, modalVars, chatVars, notebookText, directives, fetch, latex, scroll, unitVars>>

\* the callback of sendMessage runs with the response
ValidationReply ==
  /\ validation.relay = "responded"
  /\ LET v == Settle(validation, validation.response = "success")
     IN /\ validation' = [v EXCEPT !.relay = "done", !.timer = FALSE,
                                   !.reply = validation.response,
                                   !.late = validation.settled]
        /\ storedUser' = IF v.resolved # validation.resolved /\ v.reported = "valid"
                         THEN validation.user ELSE storedUser
  /\ UNCHANGED <<storedToken, modalVars, chatVars, notebookText, directives, fetch, latex, scroll, unitVars>>

\* the callback of sendMessage runs with chrome.runtime.lastError set
ValidationChannelFails ==
  /\ validation.relay \in {"sent", "http"}
  /\ validation' = [Settle(validation, FALSE) EXCEPT !.relay = "done", !.timer = FALSE,
                                                       !.reply = "lastError",
                                                       !.late = validation.settled]
  /\ UNCHANGED <<credVars, modalVars, chatVars, notebookText, directives, fetch, latex, scroll, unitVars>>

\* showStatus: the status line is hidden after 3 s
StatusHide ==
  /\ validation.status # ""
  /\ validation' = [validation EXCEPT !.status = ""]
  /\ UNCHANGED <<credVars, modalVars, chatVars, notebookText, directives, fetch, latex, scroll, unitVars>>

ValidateNext ==
  \/ \E token \in TokenInputs, user \in Users : SaveClick(token, user)
  \/ ValidationTimeout
  \/ HandleValidateAccessToken
  \/ \E ok \in BOOLEAN, throws \in BOOLEAN : ValidateAccessToken(ok, throws)
  \/ ValidationReply
  \/ ValidationChannelFails
  \/ StatusHide
  \/ \E t \in Tokens, u \in Users : SetCredentials(t, u)

ValidateSpec == Init /\ [][ValidateNext]_vars

\* ------------------------------------------------------------------ scroll restore
\* one chat panel, opened over any stored scroll offsets
ScrollInit ==
  /\ ProgramInit
  /\ notebookText = <<>>
  /\ directives = NoDirectives
  /\ fetch = NoFetch
  /\ latex = NoRender
  /\ validation = NoValidation
  /\ scroll \in {[NoScroll EXCEPT !.positions = ps] : ps \in Positions}
  /\ UnitInit

ScrollNext ==
  \/ OpenChatPanel
  \/ IntervalTick
  \/ \E messages \in Snapshots : MessagesFetched(messages)
  \/ MessagesUnrendered(Malformed)
  \/ LoadChatScrollPosition
  \/ \E value \in Rooms : SubmitRoom(value)
  \/ RoomStored
  \/ AnimationFrame
  \/ LeaveRoom
  \/ RoomLeft
  \/ ToggleAutoScroll

ScrollSpec == ScrollInit /\ [][ScrollNext]_vars

\* ------------------------------------------------------------------ Ask requests
Questions == {"", "q"}

\* runAskAiModal has run to its end: the overlay with its listeners is in the document
AskOpen ==
  /\ ~ask.open
  /\ ask' = [NoAsk EXCEPT !.open = TRUE]
  /\ UNCHANGED <<credVars, modalVars, chatVars, notebookText, directives, fetch, latex,
                 validation, scroll, batch, page, sigs>>

\* the question input is edited
AskInput(question) ==
  /\ ask.open /\ question # ask.input
  /\ ask' = [ask EXCEPT !.input = question]
  /\ UNCHANGED <<credVars, modalVars, chatVars, notebookText, directives, fetch, latex,
                 validation, scroll, batch, page, sigs>>

\* the change listener of the model select
AskSelect(model) ==
  /\ ask.open /\ model # ask.model
  /\ ask' = [ask EXCEPT !.model = model]
  /\ UNCHANGED <<credVars, modalVars, chatVars, notebookText, directives, fetch, latex,
                 validation, scroll, batch, page, sigs>>

\* handleSend with question = input.value.trim(), up to its await of fetchAIResponse
HandleSend(question) ==
  /\ BagCardinality(ask.pending) < MaxAsks
  /\ IF question = ""
     THEN /\ errorPopup' = ShowErrorPopup(errorPopup, "noquestion")
          /\ UNCHANGED ask
     ELSE /\ ask' = [ask EXCEPT !.disabled = TRUE, !.label = "Generowanie...",
                                !.pending = @ (+) One(Sent(ask.label, ask.model)),
                                !.response = "generating"]
          /\ UNCHANGED errorPopup
  /\ auditOutcome' = NoOutcome
  /\ UNCHANGED <<credVars, modalRest, chatVars, notebookText, directives, fetch, latex,
                 validation, scroll, batch, page, sigs>>

\* a click on the send button: a disabled button dispatches no click
AskSendClick ==
  /\ ask.open /\ ~ask.disabled
  /\ HandleSend(ask.input)

\* Ctrl+Enter in the question input: handleSend()
AskCtrlEnter ==
  /\ ask.open
  /\ HandleSend(ask.input)

\* fetchAIResponse returns to the handleSend call that read originalLabel: the button
\* is enabled, its label set back, the answer or the error text shown
AskAnswer(sent, response) ==
  /\ BagIn(sent, ask.pending)
  /\ ask' = [ask EXCEPT !.pending = @ (-) One(sent),
                        !.disabled = FALSE,
                        !.label = IF sent.originalLabel # "" THEN sent.originalLabel
                                  ELSE "Zapytaj",
                        !.response = IF response \in {Null, ""} THEN "error" ELSE "answer"]
  /\ UNCHANGED <<credVars, modalVars, chatVars, notebookText, directives, fetch, latex,
                 validation, scroll, batch, page, sigs>>

AskNext ==
  \/ AskOpen
  \/ \E question \in Questions : AskInput(question)
  \/ \E model \in AiModels : AskSelect(model)
  \/ AskSendClick
  \/ AskCtrlEnter
  \/ \E h \in BagToSet(ask.pending), response \in {Null, "", "answer"} : AskAnswer(h, response)
  \/ ErrorPopupExpire

AskSpec == Init /\ [][AskNext]_vars

\* ------------------------------------------------------------------ message listener
MessageTypes == {"runContentAction", "validateAccessToken"}

\* request.action: the values the service worker and the popup send, and others
MessageActions == {"audit", "chat", "ask", "compute", "other", Undefined}

\* a content script that adds its listener at every run
AttachAlways(p) ==
  [p EXCEPT !.attached = TRUE, !.listeners = @ + 1]

\* content.ts: the listener is added unless the flag on window is set
AttachListener(p) ==
  IF p.attached THEN p ELSE [p EXCEPT !.attached = TRUE, !.listeners = @ + 1]

\* the onMessage listener: the function it calls for a request, if any
Listener(type, action) ==
  IF type # "runContentAction" THEN <<>>
  ELSE IF action = "audit" THEN <<"runNotebookAuditV2">>
  ELSE IF action = "chat" THEN <<"runChatModal">>
  ELSE IF action = "ask" THEN <<"runAskAiModal">>
  ELSE <<"runComputeAi">>

\* what n listeners call for one message
RECURSIVE Listeners(_, _, _)
Listeners(n, type, action) ==
  IF n = 0 THEN <<>> ELSE Listener(type, action) \o Listeners(n - 1, type, action)

\* chrome.scripting.executeScript({files: ['content.js']}): the content script runs
InjectContentScript ==
  /\ page.injections < MaxInjections
  /\ page' = [AttachListener(page) EXCEPT !.injections = @ + 1, !.last = NoMessage]
  /\ UNCHANGED <<credVars, modalVars, chatVars, notebookText, directives, fetch, latex,
                 validation, scroll, ask, batch, sigs>>

\* a message reaches the page: every listener handles it
PageMessage(type, action) ==
  /\ LET called == Listeners(page.listeners, type, action)
     IN page' = [page EXCEPT
                   !.last = [type |-> type, action |-> action, called |-> called],
                   !.started = [f \in ContentActions |->
                                  LET n == @[f] + Cardinality({i \in 1..Len(called) : called[i] = f})
                                  IN IF n > MaxStarted THEN MaxStarted ELSE n]]
  /\ UNCHANGED <<credVars, modalVars, chatVars, notebookText, directives, fetch, latex,
                 validation, scroll, ask, batch, sigs>>

PageNext ==
  \/ InjectContentScript
  \/ \E type \in MessageTypes, action \in MessageActions : PageMessage(type, action)

PageSpec == Init /\ [][PageNext]_vars

\* ------------------------------------------------------------------ batch results
\* a batch run over the notebook texts of Docs
BatchInit ==
  /\ ProgramInit
  /\ notebookText \in Docs
  /\ directives = NoDirectives
  /\ fetch = NoFetch
  /\ latex = NoRender
  /\ validation = NoValidation
  /\ scroll = NoScroll
  /\ UnitInit

\* runComputeAiV2 up to its first await of fetchAIResponse
RunComputeAiV2 ==
  /\ batch.stage = "idle"
  /\ LET found == GetAllDirectivesFromNotebookCells(<<notebookText>>)
     IN IF Len(found) = 0
        THEN /\ errorPopup' = ShowErrorPopup(errorPopup, "nodirectives")
             /\ batch' = [batch EXCEPT !.stage = "none"]
             /\ UNCHANGED spinner
        ELSE /\ spinner' = ShowLoadingSpinner(spinner)
             /\ batch' = [batch EXCEPT !.stage = "req", !.directives = found, !.i = 1]
             /\ UNCHANGED errorPopup
  /\ auditOutcome' = NoOutcome
  /\ UNCHANGED <<credVars, processingMode, body, leaked, runs, popups, chatVars,
                 notebookText, directives, fetch, latex, validation, scroll, ask, page,
                 sigs>>

\* runComputeAiV2: fetchAIResponse returns for directive i; its item is pushed; after
\* the last directive the carousel is built and appended and the spinner hidden
BatchAnswer(response) ==
  /\ batch.stage = "req"
  /\ LET results == PushResult(batch.results, batch.directives[batch.i], response)
         answered == [batch EXCEPT !.results = results,
                                   !.answers = Append(@, response)]
     IN IF batch.i < Len(batch.directives)
        THEN /\ batch' = [answered EXCEPT !.i = @ + 1]
             /\ UNCHANGED <<body, leaked, spinner>>
        ELSE /\ batch' = [answered EXCEPT !.stage = "done", !.i = 0]
             /\ body' = BuildModalElement(body, results)
             /\ leaked' = LeakExisting(leaked, body, "result")
             /\ spinner' = HideLoadingSpinner(spinner)
  /\ auditOutcome' = NoOutcome
  /\ UNCHANGED <<credVars, processingMode, runs, errorPopup, popups, chatVars,
                 notebookText, directives, fetch, latex, validation, scroll, ask, page,
                 sigs>>

BatchNext ==
  \/ RunComputeAiV2
  \/ \E response \in AiResults : BatchAnswer(response)

BatchSpec == BatchInit /\ [][BatchNext]_vars

\* ------------------------------------------------------------------ signatures
\* the panel has joined a room
SigsInit ==
  /\ ProgramInit
  /\ notebookText = <<>>
  /\ directives = NoDirectives
  /\ fetch = NoFetch
  /\ latex = NoRender
  /\ validation = NoValidation
  /\ scroll = NoScroll
  /\ ask = NoAsk
  /\ batch = NoBatch
  /\ page = NoPage
  /\ sigs \in {[NoSigs EXCEPT !.room = r] : r \in Rooms}

\* a poll of the room from its tick to the end of loadMessages, the remote list being
\* messages: it is rendered if its signature differs from the last one
PollSnapshot(messages) ==
  /\ sigs.room # ""
  /\ LET signature == Signature(messages, sigs.room)
         polled == [sigs EXCEPT !.fetched = messages,
                                !.polls = IF @ < MaxPolled THEN @ + 1 ELSE @]
     IN sigs' = IF ShouldRender(FALSE, signature, sigs.lastSig)
                THEN [polled EXCEPT !.lastSig = signature, !.shown = messages,
                                    !.blank = FALSE]
                ELSE polled
  /\ UNCHANGED <<credVars, modalVars, chatVars, notebookText, directives, fetch, latex,
                 validation, scroll, ask, batch, page>>

SigsNext == \E messages \in RichSnapshots : PollSnapshot(messages)

SigsSpec == SigsInit /\ [][SigsNext]_vars

\* ------------------------------------------------------------------ scroll save
\* the panel with its message list scrolled by the user
SaveNext ==
  \/ OpenChatPanel
  \/ IntervalTick
  \/ \E messages \in Snapshots : MessagesFetched(messages)
  \/ LoadChatScrollPosition
  \/ \E value \in Rooms : SubmitRoom(value)
  \/ RoomStored
  \/ AnimationFrame
  \/ LeaveRoom
  \/ RoomLeft
  \/ \E o \in Offsets : ScrollEvent(o)
  \/ SaveTimeout

SaveSpec == Init /\ [][SaveNext]_vars

\* ------------------------------------------------------------------ AI requests
\* fetchAIResponse(prompt, model) up to chrome.runtime.sendMessage
FetchAIResponse(prompt, model) ==
  /\ fetch.stage \in {"idle", "returned"}
  /\ fetch' = [NoFetch EXCEPT !.stage = "sent", !.prompt = prompt, !.model = model]
  /\ UNCHANGED <<credVars, modalVars, chatVars, notebookText, directives, latex, validation, scroll, unitVars>>

\* the callback of sendMessage runs with chrome.runtime.lastError set
ChannelFails ==
  /\ fetch.stage \in {"sent", "http"}
  /\ fetch' = [fetch EXCEPT !.stage = "replied", !.lastError = TRUE,
                            !.response = Response("error", Undefined)]
  /\ UNCHANGED <<credVars, modalVars, chatVars, notebookText, directives, latex, validation, scroll, unitVars>>

\* handleAiAnswer up to the call of aiOneAnswer
HandleAiAnswer ==
  /\ fetch.stage = "sent"
  /\ fetch' = IF storedToken = ""
              THEN [fetch EXCEPT !.stage = "replied",
                                 !.response = Response("invalid_token", Undefined)]
              ELSE [fetch EXCEPT !.stage = "http"]
  /\ UNCHANGED <<credVars, modalVars, chatVars, notebookText, directives, latex, validation, scroll, unitVars>>

\* aiOneAnswer returns data.content or throws, and handleAiAnswer sends its response
AiOneAnswer(ok, content) ==
  /\ fetch.stage = "http"
  /\ fetch' = [fetch EXCEPT !.stage = "replied",
                            !.response = IF ok THEN Response("success", content)
                                          ELSE Response("error", Undefined)]
  /\ UNCHANGED <<credVars, modalVars, chatVars, notebookText, directives, latex, validation, scroll, unitVars>>

\* fetchAIResponse after its await
FetchReturn ==
  /\ fetch.stage = "replied"
  /\ fetch' = [fetch EXCEPT !.stage = "returned", !.result = FetchResult(fetch.response)]
  /\ UNCHANGED <<credVars, modalVars, chatVars, notebookText, directives, latex, validation, scroll, unitVars>>

FetchNext ==
  \/ \E t \in Tokens : SetCredentials(t, storedUser)
  \/ \E prompt \in Prompts, model \in AiModels : FetchAIResponse(prompt, model)
  \/ ChannelFails
  \/ HandleAiAnswer
  \/ \E ok \in BOOLEAN, content \in AnswerTexts : AiOneAnswer(ok, content)
  \/ FetchReturn

FetchSpec == Init /\ [][FetchNext]_vars

\* The chat panel with its openings, replaced and closed panels and the relay, under a
\* stored token.
ChatNext ==
  \/ \E u \in Users : SetCredentials(storedToken, u)
  \/ RunChatModal
  \/ \E o \in BagToSet(opening) : ChatCreds(o)
  \/ \E o \in BagToSet(opening) : ChatRoomRead(o)
  \/ \E o \in BagToSet(opening) : ChatUserRead(o)
  \/ \E i \in 1..MaxPanels : PollTick(i)
  \/ \E i \in 1..MaxPanels, resp \in GetReplies : FetchReply(i, resp)
  \/ \E i \in 1..MaxPanels, v \in RoomInputs : ApplyRoom(i, v)
  \/ \E i \in 1..Len(panels) : \E t \in BagToSet(panels[i].tasks) : JoinStored(i, t)
  \/ \E i \in 1..MaxPanels, d \in BOOLEAN : LeaveClick(i, d)
  \/ \E i \in 1..Len(panels) : \E t \in BagToSet(panels[i].tasks) : LeaveStored(i, t)
  \/ \E i \in 1..MaxPanels, d \in BOOLEAN, e \in BOOLEAN : SendClick(i, d, e)
  \/ \E i \in 1..Len(panels) : \E t \in BagToSet(panels[i].tasks), c \in BOOLEAN, h \in BOOLEAN :
        SendReply(i, t, c, h)
  \/ \E i \in 1..MaxPanels, d \in BOOLEAN, n \in BOOLEAN : AttachClick(i, d, n)
  \/ \E i \in 1..Len(panels) : \E t \in BagToSet(panels[i].tasks), c \in BOOLEAN, h \in BOOLEAN :
        AttachReply(i, t, c, h)
  \/ \E i \in 1..MaxPanels : ChatClose(i)
  \/ ChatEscape
  \/ \E t \in 0..MaxPanels : ChatMouseDown(t)
  \/ \E z \in BagToSet(detached) : DetachedStart(z)
  \/ ErrorPopupExpire

ChatSpec == Init /\ [][ChatNext]_vars

\* ------------------------------------------------------------------ C1
\* the interval timers of chat panels that are active, in the tree or out of it
ActiveTimers ==
  Cardinality({i \in 1..Len(panels) : panels[i].polling})
  + SumCopies({z \in BagToSet(detached) : z.polling}, detached)

\* C1: at most one chat poll timer is active at any time, also after a re-open of the
\* panel while one is open.
C1_OnePollTimer == ActiveTimers <= 1

\* ------------------------------------------------------------------ C2
\* C2: a chat panel whose close() has run has no active poll timer, in every
\* interleaving of the close with the panel's awaiting handlers.
C2_NoTimerAfterClose == \A z \in BagToSet(detached) : z.closed => ~z.polling

\* ------------------------------------------------------------------ C3
\* C3: a poll that fetches the list the previous poll fetched, with no join, send or
\* forced render between the two, does not re-render the message list.
C3_SamePollNoRender ==
  (note.what = "reply" /\ note.owner = "poll" /\ note.same) => ~note.rendered

\* ------------------------------------------------------------------ C4
\* C4: after an acknowledged send or attach one fetch is made at once, whatever the
\* state of the poll loop, and its reply re-renders the list even when its signature
\* equals the last rendered one.
C4_SendForcesRender ==
  note.owner \in {"send", "attach"} =>
    /\ note.what # "skipped"
    /\ note.what = "reply" => note.rendered

\* ------------------------------------------------------------------ C5
\* C5: a send or attach of a panel whose identity is empty ends in a status notice and
\* puts no request on the channel, and the relay makes no HTTP call for a send
\* request whose username is empty.
C5_EmptyIdentityRejected ==
  /\ \A i \in 1..Len(panels) : \A t \in BagToSet(panels[i].tasks) :
        t.kind \in {"send", "attach"} => t.req.username # ""
  /\ (note.owner \in {"send", "attach"} /\ note.user = ""
        /\ note.what \in {"needRoom", "needUser", "sending", "relayed", "skipped"})
       => (note.what \in {"needRoom", "needUser"} /\ ~note.http)
  /\ \A req \in RelayRequests, httpOk \in BOOLEAN :
        req.username = "" => ~HandleOneChatSend(req, httpOk).http

\* a send or attach click has just been rejected in a joined panel without identity
C5_Witness ==
  /\ note.what = "needUser" /\ note.user = ""
  /\ \E i \in 1..Len(panels) : panels[i].user = "" /\ panels[i].room # ""
                               /\ panels[i].tasks = EmptyBag

\* ------------------------------------------------------------------ C6
\* C6: submitting the identifier of the joined room re-fetches that room (and the reply
\* is rendered unconditionally).
C6_RejoinRefetches ==
  note.owner = "rejoin" =>
    /\ note.what # "skipped"
    /\ note.what = "reply" => note.rendered

\* ------------------------------------------------------------------ C7
\* C7: every carousel in the view over N >= 1 items has 0 <= index < N, shows the item
\* at its index, has prev disabled exactly at index 0 and next exactly at index N-1.
C7_CarouselControls ==
  \A i \in 1..Len(body) :
    body[i].kind \in {"result", "audit"} =>
      LET m == body[i]
          N == Len(m.items)
      IN /\ N >= 1
         /\ 0 <= m.idx /\ m.idx < N
         /\ m.shown = m.idx
         /\ m.prevDis = (m.idx = 0)
         /\ m.nextDis = (m.idx = N - 1)

\* ------------------------------------------------------------------ C8
\* C8: at most one result carousel and at most one audit carousel is in the view tree.
C8_OneCarouselPerKind ==
  /\ Cardinality({i \in 1..Len(body) : body[i].kind = "result"}) <= 1
  /\ Cardinality({i \in 1..Len(body) : body[i].kind = "audit"}) <= 1

\* a carousel in the view that has replaced an earlier one of its kind (the earlier one
\* left the tree by existingOverlay.remove(), so its listeners are still registered)
C8_Witness ==
  \E k \in {"result", "audit"} :
    /\ BagIn(Leaked(k, TRUE), leaked)
    /\ \E i \in 1..Len(body) : body[i].kind = k

\* ------------------------------------------------------------------ C9
\* C9: no outside-click or key listener remains registered for a modal that has left the
\* view tree.
C9_NoListenerLeak == \A m \in BagToSet(leaked) : ~m.wasIn

\* ------------------------------------------------------------------ C10
\* the presentation the claim names for an answer
ClaimedPresentation(ans) ==
  IF ans.t # "array" THEN "format"
  ELSE IF ans.errors = <<>> THEN "nofindings"
  ELSE "carousel"

\* C10: every non-null audit answer ends in exactly the presentation the rule names
\* (format-error notice, no-findings notice, carousel), as the last overlay appended,
\* and the flow does not raise.
C10_AuditPresentation ==
  auditOutcome.pres # "none" =>
    /\ auditOutcome.pres = ClaimedPresentation(auditOutcome.answer)
    /\ Len(body) >= 1
    /\ LET m == body[Len(body)]
       IN IF auditOutcome.pres = "carousel"
          THEN m.kind = "audit" /\ m.items = auditOutcome.answer.errors
          ELSE m.kind = "notice" /\ m.items = <<auditOutcome.pres>>

\* ------------------------------------------------------------------ C11
\* C11: right after an audit reply with an empty errors array exactly one no-findings
\* notice is in the view and no audit carousel (prev/next controls) is.
C11_OneNoFindingsNotice ==
  auditOutcome.pres = "nofindings" =>
    /\ Cardinality({i \in 1..Len(body) :
                      body[i].kind = "notice" /\ body[i].items = <<"nofindings">>}) = 1
    /\ \A i \in 1..Len(body) : body[i].kind # "audit"

\* ------------------------------------------------------------------ C12
\* a run that has shown the loading indicator ends in this step
RunEnds(r) ==
  /\ r.stage = "req"
  /\ BagCardinality(runs') < BagCardinality(runs)
  /\ CopiesIn(r, runs') < CopiesIn(r, runs)

\* C12: a per-anchor, batch or audit run that has shown the loading indicator leaves it
\* removed when it ends, on every exit path; and if every request gets a reply, a shown
\* indicator is eventually removed.
C12_SpinnerReleased ==
  /\ [][\A r \in BagToSet(runs) : RunEnds(r) => ~spinner']_vars
  /\ spinner ~> ~spinner

\* an audit run has just ended by a thrown failure and the indicator is gone
C12_Witness == auditOutcome.pres = "raised" /\ ~spinner

\* ------------------------------------------------------------------ C13
\* C13: the loading indicator is in the document whenever a per-anchor, batch or audit
\* run has a request outstanding, also when runs overlap.
C13_SpinnerBrackets == (\E r \in BagToSet(runs) : r.stage = "req") => spinner

\* ------------------------------------------------------------------ C14
\* C14: a per-anchor or batch run has exactly one request in flight while it awaits,
\* has requested the directives 1..k once each and in order, and none twice after a
\* null reply.
C14_OneRequestInFlight ==
  \A r \in BagToSet(runs) :
    (r.kind \in {"batch", "anchor"} /\ r.stage = "req") =>
      /\ Len(r.sent) - Len(r.results) = 1
      /\ Len(r.sent) <= r.n
      /\ \A k \in 1..Len(r.sent) : r.sent[k] = k

\* a run awaits the reply for its second directive after a null reply for the first
C14_Witness ==
  \E r \in BagToSet(runs) :
    r.kind \in {"batch", "anchor"} /\ r.results = <<"error">> /\ r.sent = <<1, 2>>

\* ------------------------------------------------------------------ C15
RECURSIVE DocumentOrder(_, _)
\* the directives of a text by the position of their occurrence, from position i
DocumentOrder(t, i) ==
  IF i > Len(t) THEN <<>>
  ELSE IF \E l \in Labels : MatchAt(t, i, l).end # 0
  THEN LET l == CHOOSE x \in Labels : MatchAt(t, i, x).end # 0
           m == MatchAt(t, i, l)
       IN <<[directive |-> l, content |-> Trim(SubSeq(t, m.colon + 1, m.end - 1))]>>
          \o DocumentOrder(t, m.end + 1)
  ELSE DocumentOrder(t, i + 1)

\* C15: the extracted list holds the directives in the order of their occurrences in
\* the text, also when occurrences of different kinds are interleaved.
C15_DocumentOrder ==
  directives.how # "none" =>
    [k \in 1..Len(directives.list) |->
       [directive |-> directives.list[k].directive, content |-> directives.list[k].content]]
      = DocumentOrder(notebookText, 1)

\* ------------------------------------------------------------------ C17
\* the content a directive text with inner text c is claimed to have
ClaimedContent(c) ==
  LET e == IndexOfFrom(c, "]", 1)
  IN Trim(IF e = 0 THEN c ELSE SubSeq(c, 1, e - 1))

\* C17: from a text that is one directive [K: c] with K in exact case (optional
\* whitespace around K) extraction returns exactly one directive, of kind K, with c
\* trimmed and cut at the first "]" as its content; with the label in another letter
\* case it returns none.
C17_SingleDirective ==
  \A p1 \in Pads, p2 \in Pads, l \in Labels \cup {"math"}, c \in Contents :
    (directives.how # "none" /\ notebookText = DirectiveText(p1, l, p2, c)) =>
      IF l \in Labels
      THEN /\ Len(directives.list) = 1
           /\ directives.list[1].directive = l
           /\ directives.list[1].content = ClaimedContent(c)
      ELSE directives.list = <<>>

\* the directive of [ Math : x]y] has been extracted
C17_Witness ==
  /\ notebookText = DirectiveText(<<" ">>, "Math", <<" ">>, <<"x", "]", "y">>)
  /\ directives.how = "cells"
  /\ Len(directives.list) = 1 /\ directives.list[1].content = <<"x">>

\* ------------------------------------------------------------------ C18
\* C18: every directive the per-anchor extraction emits has an anchor element.
C18_ExcessDropped ==
  directives.how = "anchors" =>
    \A k \in 1..Len(directives.list) : directives.list[k].object # NoAnchor

\* ------------------------------------------------------------------ C16
\* C16: fetchAIResponse returns null exactly when the channel failed or the relay
\* replied with a status other than success, and for a success reply it returns the
\* reply's answer.
C16_NullIffFailed ==
  fetch.stage = "returned" =>
    /\ fetch.result = Null <=> (fetch.lastError \/ fetch.response.status # "success")
    /\ (~fetch.lastError /\ fetch.response.status = "success")
         => fetch.result = fetch.response.answer

\* ------------------------------------------------------------------ C19
HasDollar(t) == \E k \in 1..Len(t) : t[k] = "$"

\* C19: renderLatex returns for every text, also when the math renderer throws, and
\* for a text without "$" its output is renderMarkdown of the text.
C19_TotalAndMarkdown ==
  latex.stage = "done" =>
    /\ ~latex.raised
    /\ ~HasDollar(latex.text) => latex.out = RenderMarkdown(latex.text)

\* a bold text without "$" has been rendered
C19_Witness ==
  /\ latex.stage = "done"
  /\ latex.text = <<"*", "*", "x", "*", "*">>
  /\ latex.out = <<"<div md-line>", "<strong>", "x", "</strong>", "</div>">>

\* ------------------------------------------------------------------ C20
\* the position of the first "$" of t, 0 if there is none
FirstDollar(t) == IndexOfFrom(t, "$", 1)

\* C20: when the first delimiter of a text has no closing delimiter (a "$" with no
\* later "$", or a "$$" with no later "$$"), its characters are literal text of the
\* output and no math span is recorded for them.
C20_UnclosedLiteral ==
  LET t == latex.text
      p == FirstDollar(t)
      display == p + 1 <= Len(t) /\ t[p + 1] = "$"
  IN (latex.stage = "done" /\ p # 0) =>
       /\ (~display /\ IndexOf(t, <<"$">>, p + 1) = 0)
            => latex.tokens = <<>> /\ latex.out = RenderMarkdown(t)
       /\ (display /\ IndexOf(t, <<"$", "$">>, p + 2) = 0)
            => /\ latex.result[p] = "$" /\ latex.result[p + 1] = "$"
               /\ IndexOf(latex.out, <<"$", "$">>, 1) # 0

\* ------------------------------------------------------------------ C21
RECURSIVE Occurs(_, _)
\* seq occurs in t as a run of consecutive characters
Occurs(seq, t) ==
  /\ Len(t) >= Len(seq)
  /\ \/ SubSeq(t, 1, Len(seq)) = seq
     \/ Occurs(seq, Tail(t))

\* C21: after the substitution pass the output of renderLatex holds none of the
\* placeholder tokens of the recorded spans, also for a text that itself holds
\* placeholder-like text.
C21_NoPlaceholderLeft ==
  (latex.stage = "done" /\ ~latex.raised) =>
    \A k \in 1..Len(latex.tokens) : ~Occurs(<<latex.tokens[k].token>>, latex.out)

\* ------------------------------------------------------------------ C22
\* C22: when the renderer throws for a recorded span, the output holds the span's
\* delimited source, $expr$ or $$expr$$, with both delimiters intact.
C22_FallbackVerbatim ==
  latex.stage = "done" =>
    \A k \in latex.throwing :
      Occurs(Delimiter(latex.tokens[k].display) \o latex.tokens[k].tex
               \o Delimiter(latex.tokens[k].display), latex.out)

\* ------------------------------------------------------------------ C23
\* C23: a markup character of the input text is never live markup of the output: the
\* output holds the "<" of the elements the pipeline generates only.
C23_NoLiveMarkup ==
  latex.stage = "done" => ~Occurs(<<"<">>, latex.out)

\* ------------------------------------------------------------------ C24
\* the invocations in B that have not yet passed ensureCredentials
Waiting(B) ==
  LET S == {x \in BagToSet(B) : x.stage = "creds"}
  IN IF S = {} THEN 0 ELSE BagCardinality([x \in S |-> CopiesIn(x, B)])

\* the access token or the chat identity is absent
CredentialsAbsent == storedToken = "" \/ storedUser = ""

\* a step in which an invocation leaves ensureCredentials
CredentialStep == Waiting(runs') + Waiting(opening') < Waiting(runs) + Waiting(opening)

\* the invocation ends there: nothing is opened, shown or dispatched
Blocked ==
  /\ UNCHANGED <<body, leaked, spinner, popups, panels, detached, storedRoom>>
  /\ BagCardinality(runs') + BagCardinality(opening')
       = BagCardinality(runs) + BagCardinality(opening) - 1

C25_ResolvesOnce ==
  /\ [](validation.resolved <= 1)
  /\ [](validation.stage = "reported" =>
          /\ validation.resolved = 1
          /\ validation.reported = "valid"
               <=> (validation.reply = "success" /\ ~validation.late))
  /\ [][(validation.stage = "reported" /\ validation'.stage = "reported")
          => validation'.reported = validation.reported]_vars

\* the success reply has arrived after the timeout and the result is still invalid
C25_Witness ==
  /\ validation.stage = "reported" /\ validation.reported = "invalid"
  /\ validation.timedOut /\ validation.reply = "success" /\ validation.late

\* ------------------------------------------------------------------ C26
\* C26: a join of another room ends only after loadMessages has fetched the new room
\* and rendered the reply; it is never passed over because a poll is in progress.
C26_JoinFetchesAndRenders ==
  note.owner = "join" => (note.what = "reply" /\ note.rendered)

\* ------------------------------------------------------------------ C27
\* no applyRoom or leave handler of the panel awaits storage, and no loadMessages call
\* awaits its fetch
Quiet(p) == p.tasks = EmptyBag /\ ~p.load.awaiting

\* C27: a panel with no room joined and no join or leave in progress shows the landing
\* view (the message list and the input row are hidden) and has no poll timer.
C27_LandingWithoutRoom ==
  \A i \in 1..Len(panels) :
    (panels[i].room = "" /\ Quiet(panels[i]))
      => (panels[i].view = "landing" /\ ~panels[i].polling)

\* ------------------------------------------------------------------ C28
\* the leave handler of the panel has run to its end, or the panel never had a room
LeftRoom(p) == p.room = "" /\ \A t \in BagToSet(p.tasks) : t.kind # "leave"

\* C28: after a leave the room id is empty in the panel and in storage, the poll timer
\* is stopped and the rendered list is empty, and it stays so until the next join.
C28_LeaveClearsAll ==
  \A i \in 1..Len(panels) :
    LeftRoom(panels[i])
      => (storedRoom = "" /\ ~panels[i].polling /\ panels[i].shown = Blank)

\* ------------------------------------------------------------------ C29
\* C29: a non-empty lastMessagesSignature is the signature of the list the message
\* container shows.
C29_SignatureOfShown ==
  \A i \in 1..Len(panels) :
    panels[i].lastSig # ""
      => /\ ~panels[i].shown.blank
         /\ \E r \in Rooms \cup {""} :
              panels[i].lastSig = Signature(panels[i].shown.msgs, r)

\* ------------------------------------------------------------------ C30
\* C30: the stored scroll offset of the room the panel opened with is assigned at most
\* once, at the first render of that room and while that room is still the current
\* one and has not been left or replaced; the render that restores does not scroll to
\* the bottom.
C30_RestoreOnceAtFirstRender ==
  /\ scroll.restores <= 1
  /\ scroll.last.what = "applied"
       => /\ scroll.currentRoomId = scroll.restoreScrollRoomId
          /\ ~scroll.switched
          /\ scroll.renders = 1
  /\ (scroll.last.what = "render" /\ scroll.last.restoring) => ~scroll.last.auto

\* ------------------------------------------------------------------ C31
\* C31: the scroll events of a burst leave one save timeout pending, so one write is
\* made after the last of them and none before; a scroll event while no room is joined
\* sets no timeout.
C31_OneWritePerBurst ==
  /\ [](scroll.timers <= 1 /\ scroll.fired <= 1)
  /\ []((scroll.last.what = "scroll" /\ scroll.last.current # "")
          => (scroll.timers = 1 /\ scroll.fired = 0))
  /\ [][(scroll'.last.what = "scroll" /\ scroll.currentRoomId = "")
          => (scroll'.timers = scroll.timers /\ scroll'.positions = scroll.positions)]_vars
  /\ [][scroll'.positions # scroll.positions
          => (scroll'.last.what = "fired" /\ scroll.timers = 1 /\ scroll'.timers = 0)]_vars

\* the timeout of a burst of two scroll events has run, once
C31_Witness ==
  /\ scroll.last.what = "fired" /\ scroll.burst = 2
  /\ scroll.fired = 1 /\ scroll.timers = 0

\* ------------------------------------------------------------------ C32
\* C32: a list is rendered, and its signature recorded, only while the room it was
\* fetched for is the current room.
C32_RenderedForCurrentRoom ==
  scroll.last.what = "render" => scroll.last.roomId = scroll.last.current

\* ------------------------------------------------------------------ C33
\* C33: isLoading is set only while a loadMessages call is awaiting: every call that
\* sets it clears it on the way out, so no later poll tick is turned away for good.
C33_GuardCleared ==
  scroll.isLoading => scroll.load # "idle"

\* ------------------------------------------------------------------ C34
\* C34: lists with equal signatures are equal, so after every poll the list shown is
\* the list that poll fetched.
C34_ChangeIsRendered ==
  sigs.polls > 0 => (~sigs.blank /\ sigs.shown = sigs.fetched)

\* ------------------------------------------------------------------ C35
\* the reply of a fetch that failed
FailedGet == [ok |-> FALSE, msgs |-> <<>>]

EmptyList == [blank |-> FALSE, msgs |-> <<>>]

C36_SavedUnderOwnRoom ==
  /\ scroll.positions[""] = <<>>
  /\ scroll.last.what = "fired"
       => (scroll.last.roomId # "" /\ scroll.last.roomId = scroll.last.armed)

\* ------------------------------------------------------------------ C37
\* C37: at most one handleSend call of the Ask modal awaits its reply, and with none
\* awaiting the send button is enabled and shows its idle label.
C37_OneAskOutstanding ==
  /\ BagCardinality(ask.pending) <= 1
  /\ (ask.open /\ ask.pending = EmptyBag)
       => (~ask.disabled /\ ask.label = "Zapytaj")

\* ------------------------------------------------------------------ C39
\* C39: once the content script has run, however often, the page has one message
\* listener: a runContentAction message calls one function (the audit, the chat or the
\* Ask modal for those action values, the compute run for any other), and a message
\* of another type calls none.
C39_OneListener ==
  /\ page.injections > 0 => page.listeners = 1
  /\ (page.injections > 0 /\ page.last.type = "runContentAction")
       => page.last.called =
            << CASE page.last.action = "audit" -> "runNotebookAuditV2"
                 [] page.last.action = "chat" -> "runChatModal"
                 [] page.last.action = "ask" -> "runAskAiModal"
                 [] OTHER -> "runComputeAi" >>
  /\ page.last.type # "runContentAction" => page.last.called = <<>>

\* after three runs of the content script a message with another action value has
\* started one compute run
C39_Witness ==
  /\ page.injections = 3
  /\ page.last.type = "runContentAction" /\ page.last.action = "other"
  /\ page.last.called = <<"runComputeAi">>

\* ------------------------------------------------------------------ C38
\* the items of the carousel in the document
CarouselItems == body[Len(body)].items

\* C38: the carousel of a batch run has one item per extracted directive, in the order
\* of extraction, item i with the kind and content of directive i and with the answer
\* to its request, or the error text if that was null; every directive was requested.
C38_OneItemPerDirective ==
  batch.stage = "done" =>
    LET found == GetAllDirectivesFromNotebookCells(<<notebookText>>)
    IN /\ Len(body) = 1
       /\ Len(CarouselItems) = Len(found)
       /\ Len(batch.answers) = Len(found)
       /\ \A i \in 1..Len(found) :
            /\ CarouselItems[i].directive = found[i].directive
            /\ CarouselItems[i].content = found[i].content
            /\ CarouselItems[i].response =
                 IF batch.answers[i] = Null THEN AiErrorText ELSE batch.answers[i]

\* a carousel of two items of different kinds, the first with the error text
C38_Witness ==
  /\ batch.stage = "done" /\ Len(body) = 1 /\ Len(CarouselItems) = 2
  /\ batch.answers = <<Null, "a">>
  /\ CarouselItems[1].response = AiErrorText /\ CarouselItems[2].response = "a"
  /\ CarouselItems[1].directive # CarouselItems[2].directive

====
